---- MODULE Spec2Model ----
(***************************************************************************)
(* Verification model of the AV notification appliance:                    *)
(*   - AsyncQueue             (src/src/lib/async_queue.py)                 *)
(*   - Hardware button bridge (src/src/lib/hardware.py)                    *)
(*   - StateManager ledger    (src/src/lib/state_manager.py)               *)
(* Each component has its own specification over the shared variables; the *)
(* variables of the other components stay at their initial values.         *)
(***************************************************************************)
EXTENDS Integers, Sequences, FiniteSets, TLC

(***************************************************************************)
(* Bounds of the model                                                     *)
(***************************************************************************)
\* largest constructor argument tried for AsyncQueue (smallest is -1)
MaxCap == 2
\* how many items more than the fallback deque length the producers put in one run
MaxOverflow == 1
\* number of items put into a queue with maxsize > 0 in one run
MaxItems == 4
\* producer and consumer tasks using one queue
NumProducers == 2
NumConsumers == 2

\* interrupts raised in one run of the button bridge
MaxIrqs == 2
\* steps of time in one run of the button bridge
MaxAdvances == 3

\* length of the ledgers update_state is called on
MaxUpdateLen == 2
\* update_state is called with the indices -MaxUpdateIndex .. MaxUpdateIndex
MaxUpdateIndex == 3
\* Pickup, Emergency and Parking events handled in one run of the state machine
MaxArrivals == 2
\* messages inserted in one run of the ledger with its writer
MaxInserts == 6
\* Accept actions that reach the generation counter in one run
MaxAccepts == 2
\* _osc_encode_string: the longest string encoded, in code points
MaxStringLen == 3
\* AsyncLogger: calls of log by the program and flushes of the buffer in one run
MaxLogCalls == 5
MaxFlushes == 7
\* DisplayManager: display commands handled in one run
MaxCommands == 3
\* events put on the event queue while the event loop is followed
MaxEvents == 3
\* events put on the event queue while the three queues are followed
MaxQueued == 11

\* the fallback deque length for maxsize == 0 (async_queue.py:37)
FallbackMaxlen == 20

\* hardware.py: the pins of the two buttons, the debounce window, the poll interval
BUTTON_ACCEPT_PIN == 15
BUTTON_REJECT_PIN == 14
DEBOUNCE_MS == 200
PollIntervalMs == 100
\* utime.ticks_ms() counts modulo 2^30
TicksPeriod == 1073741824
\* state_manager.py: self._max_messages
max_messages == 5
\* AsyncQueue(): the default maxsize of the display and LED queues
QueueMaxsize == 10
\* _max_log_size = 20 * 1024
max_log_size == 20480
\* the bytes the lines logged by the logger itself add to the file: "Log
\* rotated ...", "Error during rotation: ..." and "Logger write error: ..."
RotatedLineSize == 93
RotationErrorLineSize == 59
WriteErrorLineSize == 56

\* number of items the producers hand to put in one run: enough to overflow the
\* fallback deque of a queue built with maxsize 0, MaxItems for a bounded queue
MaxPuts(m) == IF m = 0 THEN FallbackMaxlen + MaxOverflow ELSE MaxItems

Producers == 1..NumProducers
Consumers == 1..NumConsumers
CapArgs == (-1)..MaxCap

VARIABLES
    \* ---- AsyncQueue ----
    q_arg,       \* the maxsize argument given to AsyncQueue(...)
    q_state,     \* "new" before __init__, "ok" after it returned, "error" after it raised
    q_attrs,     \* the attributes __init__ has created on the object
    maxsize,     \* self._maxsize
    maxlen,      \* the maxlen of the deque self._queue
    queue,       \* the content of self._queue, oldest first
    put_event,   \* state flag of self._put_event
    get_event,   \* state flag of self._get_event
    pcP,         \* producer task -> "idle" | "wait" (suspended in _put_event.wait) | "ready" (woken)
    pcC,         \* consumer task -> "idle" | "wait" (suspended in _get_event.wait) | "ready" (woken)
    itemP,       \* producer task -> the item of its current put call
    nextItem,    \* how many put calls were started (items are numbered by call)
    putLog,      \* history: the items appended by put, in order
    getLog,      \* history: the items returned by get, in order
    fullSeen,    \* history: full() was observed true at some point
    \* ---- Hardware button bridge ----
    uptime,          \* milliseconds since boot (not wrapped)
    latest_event,    \* _latest_event: the mailbox written by the interrupt handler
    event_ready,     \* _event_ready
    last_event_time, \* pin -> timestamp of its last accepted edge, -1 when the pin is not in the dict
    b_pc,            \* _button_task: "poll" | "read" | "put" | "sleep"
    b_pending,       \* the event _button_task is putting on the event queue
    b_slept,         \* milliseconds of sleep_ms(100) that have passed, up to 100
    published,       \* history: the events put on the event queue, in order
    irqLog,          \* history: every interrupt [pin, val, ts, at]
    procLog,         \* history: every mailbox read of the task [id, acc]
    overwritten,     \* history: interrupts overwritten in the mailbox before any read
    advances,        \* history: number of time steps taken
    \* ---- StateManager ----
    messages,        \* self._messages: the ledger, oldest first
    display_index,   \* self._current_display_message_index
    osc_index,       \* self._current_osc_index
    active_task_id,  \* self._active_resolume_task_id: the generation counter
    messages_dirty,  \* state flag of the Event self._messages_dirty
    w_pc,            \* _file_writer_task: "wait" (for dirty) | "sleep" (the 500 ms)
    timers,          \* the auto_clear tasks sleeping their 45 s, oldest first: [index, task_id]
                     \* and, as history, msg: the id of the message their Accept accepted
    file_msgs,       \* the content of messages.txt: a JSON array of objects
    sm_todo,         \* the rest of the handler suspended in a queue put (empty: run waits in get)
    display_queue,   \* content of the display event queue
    led_queue,       \* content of the LED event queue
    led_alert,       \* the level of the alert LED pin
    osc_out,         \* the packets sent to Resolume by the step just taken
    arrivals,        \* history: number of messages appended
    since_write,     \* history: number of messages appended since the last write
    write_failed,    \* history: the last write of the ledger file failed
    \* ---- update_state called on its own ----
    us_call,         \* the last call of update_state: [made, index, new_state, raised]
    \* ---- the OSC functions called on their own ----
    osc_call,        \* the last call: [fn, address, arg, raised, out, sent]
    \* ---- AsyncLogger ----
    log_buffer,      \* self.buffer: the size in bytes of each line waiting, newline included
    fs,              \* the log files of the file system: name -> [size, born], born
                     \* being the number of the flush that created the file
    log_last,        \* history: what os.rename did in the last flush: "none" | "done" | "failed"
    log_calls,       \* history: number of calls of log by the program
    log_flushes,     \* history: number of flushes
    log_rotations,   \* history: number of renames done
    \* ---- DisplayManager ----
    current_text,    \* self._current_text
    core1_text,      \* self._core1_text: [val, w], w (history) numbering the write that set it
    core1_power_on,  \* self._core1_power_on: [val, w]
    core1_lock,      \* the holder of self._core1_lock: "free" | "core0" | a render thread
    core1_running,   \* self._core1_running
    c0_pc,           \* the display task in _update_text_and_power: "idle" | "lock" | "text" |
                     \* "power" | "unlock" | "check" | "dead" (an exception ended the task)
    c0_arg,          \* the sanitized text and the power state being written: [text, power]
    th_pc,           \* per render thread: "off" | "start" | "lock" | "read_text" | "read_power" |
                     \* "unlock" | "decide" | "show_lock" | "show" | "show_unlock"
    th_new_text,     \* per render thread: the local new_text, [val, w]
    th_is_power_on,  \* per render thread: the local is_power_on, [val, w]
    th_text,         \* per render thread: the local _text
    framebuffer,     \* the text drawn into the frame buffer of the display
    device_power,    \* the panel: "on" | "off"
    device_shown,    \* the text show() last sent to the panel
    d_writes,        \* history: number of writes of the cell
    d_commands,      \* history: number of display commands handled
    \* ---- the event queue and the tasks of main.py ----
    event_queue,     \* content of the event queue, oldest first
    run_event,       \* history: the event StateManager.run took last
    produced,        \* history: number of events put on the event queue
    ready_pc         \* show_ready_message: "start" | "sleep" (the 3 s) | "done"

qvars == <<q_arg, q_state, q_attrs, maxsize, maxlen, queue, put_event, get_event,
           pcP, pcC, itemP, nextItem, putLog, getLog, fullSeen>>

bvars == <<uptime, latest_event, event_ready, last_event_time, b_pc, b_pending, b_slept,
           published, irqLog, procLog, overwritten, advances>>

svars == <<messages, display_index, osc_index, active_task_id, messages_dirty, w_pc, timers,
           file_msgs, sm_todo, display_queue, led_queue, led_alert, osc_out, arrivals,
           since_write, write_failed>>

uvars == <<us_call>>

ovars == <<osc_call>>

gvars == <<log_buffer, fs, log_last, log_calls, log_flushes, log_rotations>>

dvars == <<current_text, core1_text, core1_power_on, core1_lock, core1_running, c0_pc, c0_arg,
           th_pc, th_new_text, th_is_power_on, th_text, framebuffer, device_power,
           device_shown, d_writes, d_commands>>

tvars == <<event_queue, run_event, produced, ready_pc>>

vars == <<qvars, bvars, svars, uvars, ovars, gvars, dvars, tvars>>

(***************************************************************************)
(* AsyncQueue                                                              *)
(***************************************************************************)

\* __init__, line 27: the argument check
ValidArgNoCheck(m) == TRUE
ValidArg(m) == m >= 0

\* __init__, lines 34-37: the maxlen handed to collections.deque
DequeMaxlen(m) == IF m > 0 THEN m ELSE FallbackMaxlen

\* __init__, lines 30-40 with an off-by-one capacity
QueueFieldsOffByOne(m) == [maxsize |-> IF m > 0 THEN m + 1 ELSE m, maxlen |-> DequeMaxlen(m) + 1]
\* __init__, lines 30-40: self._maxsize and the deque's maxlen
QueueFields(m) == [maxsize |-> m, maxlen |-> DequeMaxlen(m)]

\* deque.append on a deque built with a maxlen and no overflow check:
\* when the deque is full the oldest item is discarded
DequeAppend(q, x) ==
    IF Len(q) >= maxlen THEN Append(Tail(q), x) ELSE Append(q, x)

\* put, line 53: the loop condition, with > for >=
PutMustWaitOffByOne == maxsize > 0 /\ Len(queue) > maxsize
\* put, line 53: the loop condition
PutMustWait == maxsize > 0 /\ Len(queue) >= maxsize

\* full(), line 95
full == maxsize > 0 /\ Len(queue) >= maxsize

\* qsize(), line 80
qsize == Len(queue)

\* Event.set(): every task suspended in wait() is made runnable
WakeAll(pc) == [t \in DOMAIN pc |-> IF pc[t] = "wait" THEN "ready" ELSE pc[t]]
\* Event.set() that wakes nobody
WakeNone(pc) == pc

\* get, line 72 / put, line 58: the set() that ends the other side's wait
SetEventWake(pc) == WakeAll(pc)

QInit ==
    /\ q_arg \in CapArgs
    /\ q_state = "new"
    /\ q_attrs = {}
    /\ maxsize = 0
    /\ maxlen = 0
    /\ queue = <<>>
    /\ put_event = FALSE
    /\ get_event = FALSE
    /\ pcP = [p \in Producers |-> "idle"]
    /\ pcC = [c \in Consumers |-> "idle"]
    /\ itemP = [p \in Producers |-> 0]
    /\ nextItem = 0
    /\ putLog = <<>>
    /\ getLog = <<>>
    /\ fullSeen = FALSE

\* AsyncQueue.__init__
Construct ==
    /\ q_state = "new"
    /\ IF ValidArg(q_arg)
         THEN /\ q_state' = "ok"
              /\ q_attrs' = {"_maxsize", "_queue", "_get_event", "_put_event"}
              /\ maxsize' = QueueFields(q_arg).maxsize
              /\ maxlen' = QueueFields(q_arg).maxlen
         ELSE /\ q_state' = "error"
              /\ UNCHANGED <<q_attrs, maxsize, maxlen>>
    /\ UNCHANGED <<q_arg, queue, put_event, get_event, pcP, pcC, itemP, nextItem,
                   putLog, getLog, fullSeen>>

\* put, lines 53-58, from the loop test on: run by the call and by every wake-up
PutLoop(p, log) ==
    IF PutMustWait
      THEN /\ put_event' = FALSE
           /\ pcP' = [pcP EXCEPT ![p] = "wait"]
           /\ UNCHANGED <<queue, get_event, pcC, putLog, fullSeen>>
      ELSE /\ queue' = DequeAppend(queue, itemP'[p])
           /\ get_event' = TRUE
           /\ pcC' = SetEventWake(pcC)
           /\ pcP' = [pcP EXCEPT ![p] = "idle"]
           /\ putLog' = IF log THEN Append(putLog, itemP'[p]) ELSE putLog
           /\ fullSeen' = (fullSeen \/ (maxsize > 0 /\ Len(queue') >= maxsize))
           /\ UNCHANGED put_event

\* a task calls put(item)
PutCall(p, log) ==
    /\ q_state = "ok"
    /\ pcP[p] = "idle"
    /\ log => nextItem < MaxPuts(q_arg)
    /\ nextItem' = IF log THEN nextItem + 1 ELSE nextItem
    /\ itemP' = [itemP EXCEPT ![p] = IF log THEN nextItem + 1 ELSE p]
    /\ PutLoop(p, log)
    /\ UNCHANGED <<q_arg, q_state, q_attrs, maxsize, maxlen, getLog>>

\* a task woken from _put_event.wait() runs again
PutResume(p, log) ==
    /\ pcP[p] = "ready"
    /\ UNCHANGED <<itemP, nextItem>>
    /\ PutLoop(p, log)
    /\ UNCHANGED <<q_arg, q_state, q_attrs, maxsize, maxlen, getLog>>

\* get, lines 67-73, from the loop test on
GetLoop(c, log) ==
    IF queue = <<>>
      THEN /\ get_event' = FALSE
           /\ pcC' = [pcC EXCEPT ![c] = "wait"]
           /\ UNCHANGED <<queue, put_event, pcP, getLog>>
      ELSE /\ queue' = Tail(queue)
           /\ put_event' = TRUE
           /\ pcP' = SetEventWake(pcP)
           /\ pcC' = [pcC EXCEPT ![c] = "idle"]
           /\ getLog' = IF log THEN Append(getLog, Head(queue)) ELSE getLog
           /\ UNCHANGED get_event

\* a task calls get()
GetCall(c, log) ==
    /\ q_state = "ok"
    /\ pcC[c] = "idle"
    /\ GetLoop(c, log)
    /\ UNCHANGED <<q_arg, q_state, q_attrs, maxsize, maxlen, itemP, nextItem, putLog, fullSeen>>

\* a task woken from _get_event.wait() runs again
GetResume(c, log) ==
    /\ pcC[c] = "ready"
    /\ GetLoop(c, log)
    /\ UNCHANGED <<q_arg, q_state, q_attrs, maxsize, maxlen, itemP, nextItem, putLog, fullSeen>>

QNext ==
    \/ Construct /\ UNCHANGED <<bvars, svars, uvars, ovars, gvars, dvars, tvars>>
    \/ \E p \in Producers : PutCall(p, TRUE) /\ UNCHANGED <<bvars, svars, uvars, ovars, gvars, dvars, tvars>>
    \/ \E p \in Producers : PutResume(p, TRUE) /\ UNCHANGED <<bvars, svars, uvars, ovars, gvars, dvars, tvars>>
    \/ \E c \in Consumers : GetCall(c, TRUE) /\ UNCHANGED <<bvars, svars, uvars, ovars, gvars, dvars, tvars>>
    \/ \E c \in Consumers : GetResume(c, TRUE) /\ UNCHANGED <<bvars, svars, uvars, ovars, gvars, dvars, tvars>>

(***************************************************************************)
(* Hardware: interrupt mailbox and debouncing button task                  *)
(***************************************************************************)

Pins == {BUTTON_ACCEPT_PIN, BUTTON_REJECT_PIN}
Levels == {0, 1}

\* an idle period that brings the tick counter close to its wrap-around
LongIdle == TicksPeriod - PollIntervalMs
\* the steps of time of the model
Deltas == {PollIntervalMs, DEBOUNCE_MS - 1, LongIdle}

\* _latest_event = None
NoEvent == [pin |-> 0, val |-> 0, ts |-> 0, id |-> 0]

\* utime.ticks_ms(), line 31
ticks_ms == uptime % TicksPeriod

\* _button_irq_handler, line 32, keeping an unread value instead of overwriting it
MailboxKeepUnread(pin, val) ==
    IF event_ready THEN latest_event
    ELSE [pin |-> pin, val |-> val, ts |-> ticks_ms, id |-> Len(irqLog) + 1]
\* _button_irq_handler, line 32: the mailbox after an interrupt
MailboxWrite(pin, val) ==
    [pin |-> pin, val |-> val, ts |-> ticks_ms, id |-> Len(irqLog) + 1]

\* _button_task, line 66: the debounce check
DebounceAccepts(pin, ts) ==
    last_event_time[pin] = -1 \/ (ts - last_event_time[pin]) > DEBOUNCE_MS

\* _button_task, line 67, moved out of the if: every edge read moves the window
LastEventTimeAlways(pin, ts) == [last_event_time EXCEPT ![pin] = ts]
\* _button_task, lines 66-67: last_event_time after the edge (pin, ts) was read
LastEventTimeAfter(pin, ts) ==
    IF DebounceAccepts(pin, ts) THEN [last_event_time EXCEPT ![pin] = ts]
    ELSE last_event_time

\* _button_task, lines 69-74
ButtonLabel(pin) ==
    IF pin = BUTTON_ACCEPT_PIN THEN "ACCEPT"
    ELSE IF pin = BUTTON_REJECT_PIN THEN "REJECT" ELSE "UNKNOWN"

\* _button_task, lines 77-80: the event put on the queue
ButtonEvent(e) ==
    [type |-> IF e.val = 0 THEN "BUTTON_PRESSED" ELSE "BUTTON_RELEASED",
     value |-> ButtonLabel(e.pin), id |-> e.id]

BInit ==
    /\ uptime = 0
    /\ latest_event = NoEvent
    /\ event_ready = FALSE
    /\ last_event_time = [p \in Pins |-> -1]
    /\ b_pc = "poll"
    /\ b_pending = ButtonEvent(NoEvent)
    /\ b_slept = 0
    /\ published = <<>>
    /\ irqLog = <<>>
    /\ procLog = <<>>
    /\ overwritten = {}
    /\ advances = 0

\* time passes
Advance(d) ==
    /\ advances < MaxAdvances
    /\ d = LongIdle => uptime < LongIdle
    /\ uptime' = uptime + d
    /\ advances' = advances + 1
    /\ b_slept' = IF b_pc = "sleep" /\ b_slept + d < PollIntervalMs THEN b_slept + d
                  ELSE IF b_pc = "sleep" THEN PollIntervalMs ELSE b_slept
    /\ UNCHANGED <<latest_event, event_ready, last_event_time, b_pc, b_pending,
                   published, irqLog, procLog, overwritten>>

\* _button_irq_handler: an edge on a button pin; it preempts the task anywhere
Irq(pin, val) ==
    /\ Len(irqLog) < MaxIrqs
    /\ latest_event' = MailboxWrite(pin, val)
    /\ event_ready' = TRUE
    /\ irqLog' = Append(irqLog, [pin |-> pin, val |-> val, ts |-> ticks_ms, at |-> uptime])
    /\ overwritten' = IF latest_event.id # 0
                         /\ latest_event'.id # latest_event.id
                         /\ \A k \in 1..Len(procLog) : procLog[k].id # latest_event.id
                      THEN overwritten \cup {latest_event.id} ELSE overwritten
    /\ UNCHANGED <<uptime, last_event_time, b_pc, b_pending, b_slept, published, procLog,
                   advances>>

\* _button_task, lines 61-62 (and line 81 when the flag is not set)
PollTest ==
    /\ b_pc = "poll"
    /\ IF event_ready
         THEN /\ event_ready' = FALSE
              /\ b_pc' = "read"
              /\ UNCHANGED b_slept
         ELSE /\ b_pc' = "sleep"
              /\ b_slept' = 0
              /\ UNCHANGED event_ready
    /\ UNCHANGED <<uptime, latest_event, last_event_time, b_pending, published, irqLog,
                   procLog, overwritten, advances>>

\* _button_task, lines 63-80 up to the suspension in put (line 81 when debounced)
PollRead ==
    /\ b_pc = "read"
    /\ LET e == latest_event
           acc == DebounceAccepts(e.pin, e.ts)
       IN  /\ last_event_time' = LastEventTimeAfter(e.pin, e.ts)
           /\ procLog' = Append(procLog, [id |-> e.id, acc |-> acc])
           /\ IF acc
                THEN /\ b_pending' = ButtonEvent(e)
                     /\ b_pc' = "put"
                     /\ UNCHANGED b_slept
                ELSE /\ b_pc' = "sleep"
                     /\ b_slept' = 0
                     /\ UNCHANGED b_pending
    /\ UNCHANGED <<uptime, latest_event, event_ready, published, irqLog, overwritten,
                   advances>>

\* _button_task, lines 77-81: put completes (at once, or after the queue had space)
PutDone ==
    /\ b_pc = "put"
    /\ published' = Append(published, b_pending)
    /\ b_pc' = "sleep"
    /\ b_slept' = 0
    /\ UNCHANGED <<uptime, latest_event, event_ready, last_event_time, b_pending, irqLog,
                   procLog, overwritten, advances>>

\* _button_task, line 81: sleep_ms(100) is over
Wake ==
    /\ b_pc = "sleep"
    /\ b_slept >= PollIntervalMs
    /\ b_pc' = "poll"
    /\ UNCHANGED <<uptime, latest_event, event_ready, last_event_time, b_pending, b_slept,
                   published, irqLog, procLog, overwritten, advances>>

BNext ==
    \/ \E d \in Deltas : Advance(d) /\ UNCHANGED <<qvars, svars, uvars, ovars, gvars, dvars, tvars>>
    \/ \E pin \in Pins, val \in Levels : Irq(pin, val) /\ UNCHANGED <<qvars, svars, uvars, ovars, gvars, dvars, tvars>>
    \/ PollTest /\ UNCHANGED <<qvars, svars, uvars, ovars, gvars, dvars, tvars>>
    \/ PollRead /\ UNCHANGED <<qvars, svars, uvars, ovars, gvars, dvars, tvars>>
    \/ PutDone /\ UNCHANGED <<qvars, svars, uvars, ovars, gvars, dvars, tvars>>
    \/ Wake /\ UNCHANGED <<qvars, svars, uvars, ovars, gvars, dvars, tvars>>

(***************************************************************************)
(* StateManager: ledger, cursors, generation counter, debounced write      *)
(***************************************************************************)

Kinds == {"PICKUP", "EMERGENCY", "PARKING"}
\* the values a Pickup or Parking event carries
Values == {"v"}
\* what the RTC reads when a message arrives
Timestamps == {"01.11.2026 12:00"}

EmergencyValue == "Ersthelfer / medizinisches Fachpersonal bitte zum Kids Check-In"

\* the OSC packets of _handle_accept (lines 295-297), _handle_reject (331-333)
\* and auto_clear (313-314); the text is the kind's sentence around the value
AcceptPacketsNoConnect(entry) ==
    << [path |-> "lines", tag |-> "s", text |-> entry.type, arg |-> entry.value],
       [path |-> "opacity", tag |-> "f", text |-> "", arg |-> "1.0"] >>
AcceptPackets(entry) ==
    << [path |-> "lines", tag |-> "s", text |-> entry.type, arg |-> entry.value],
       [path |-> "opacity", tag |-> "f", text |-> "", arg |-> "1.0"],
       [path |-> "connect", tag |-> "i", text |-> "", arg |-> "1"] >>
RejectPacketsNoText ==
    << [path |-> "opacity", tag |-> "f", text |-> "", arg |-> "0.0"],
       [path |-> "connect", tag |-> "i", text |-> "", arg |-> "0"] >>
RejectPackets ==
    << [path |-> "lines", tag |-> "s", text |-> "", arg |-> ""],
       [path |-> "opacity", tag |-> "f", text |-> "", arg |-> "0.0"],
       [path |-> "connect", tag |-> "i", text |-> "", arg |-> "0"] >>
AutoClearPackets ==
    << [path |-> "opacity", tag |-> "f", text |-> "", arg |-> "0.0"],
       [path |-> "connect", tag |-> "i", text |-> "", arg |-> "0"] >>

\* _handle_accept, lines 301-302, starting again at 1
NextTaskIdReset(id) == 1
\* _handle_accept, lines 301-302: the generation counter after an Accept
NextTaskId(id) == id + 1

\* update_state, line 256: the index check
ValidIndex(msgs, index) == index # -1 /\ index <= Len(msgs) - 1

\* update_state, lines 254-261, for the ledger msgs and the dirty flag dirty:
\* the ledger and the flag afterwards, and whether the call raised. An index
\* that passes the test of line 256 is used as Python uses it: a negative
\* one counts from the end of the list, and one below -len raises IndexError
\* at line 257, before the flag is set.
UpdateStateResult(msgs, dirty, index, new_state) ==
    IF ValidIndex(msgs, index)
      THEN IF index >= 0
             THEN [msgs |-> [msgs EXCEPT ![index + 1].state = new_state],
                   dirty |-> TRUE, raised |-> FALSE]
           ELSE IF -index <= Len(msgs)
             THEN [msgs |-> [msgs EXCEPT ![Len(msgs) + index + 1].state = new_state],
                   dirty |-> TRUE, raised |-> FALSE]
           ELSE [msgs |-> msgs, dirty |-> dirty, raised |-> TRUE]
      ELSE [msgs |-> msgs, dirty |-> dirty, raised |-> FALSE]

\* update_state, lines 256-261: the ledger afterwards (indices count from 0)
UpdatedMessages(msgs, index, new_state) ==
    UpdateStateResult(msgs, FALSE, index, new_state).msgs

\* _write_messages_to_file, lines 143-148, without the cap
TruncatedNoCap(msgs) == msgs
\* _write_messages_to_file, lines 143-148, popping at the wrong end
TruncatedOldest(msgs) ==
    IF Len(msgs) > max_messages THEN SubSeq(msgs, 1, max_messages) ELSE msgs
\* _write_messages_to_file, lines 143-148: the newest max_messages entries
Truncated(msgs) ==
    IF Len(msgs) > max_messages
      THEN SubSeq(msgs, Len(msgs) - max_messages + 1, Len(msgs))
      ELSE msgs

\* _write_messages_to_file, lines 144-148: how many entries the loop removes
RemovedCount(msgs) == Len(msgs) - Len(Truncated(msgs))

Max(a, b) == IF a >= b THEN a ELSE b

\* the steps of a handler from its first queue put on
\* _handle_pickup 364-365, _handle_emergency 382-383, _handle_parking 401-402
NewTextStepsNoLed(text) ==
    << [op |-> "display", type |-> "NEWTEXT", text |-> text] >>
NewTextSteps(text) ==
    << [op |-> "display", type |-> "NEWTEXT", text |-> text],
       [op |-> "led", type |-> "ON", text |-> <<>>] >>
\* _handle_accept 322-324, _handle_reject 344-346
DeleteTextSteps ==
    << [op |-> "display", type |-> "DELETETEXT", text |-> <<"">>],
       [op |-> "clear_index", type |-> "", text |-> <<>>],
       [op |-> "led", type |-> "OFF", text |-> <<>>] >>

\* a handler runs until a put finds its queue full: the steps left over, the
\* queues and the display index after the steps that could run
RECURSIVE RunSteps(_, _, _, _)
RunSteps(todo, dq, lq, di) ==
    IF todo = <<>> THEN [todo |-> todo, dq |-> dq, lq |-> lq, di |-> di]
    ELSE LET st == Head(todo)
         IN  IF st.op = "display"
               THEN IF Len(dq) >= QueueMaxsize
                      THEN [todo |-> todo, dq |-> dq, lq |-> lq, di |-> di]
                      ELSE RunSteps(Tail(todo),
                                    Append(dq, [type |-> st.type, value |-> st.text]), lq, di)
             ELSE IF st.op = "led"
               THEN IF Len(lq) >= QueueMaxsize
                      THEN [todo |-> todo, dq |-> dq, lq |-> lq, di |-> di]
                      ELSE RunSteps(Tail(todo), dq, Append(lq, [state |-> st.type]), di)
             ELSE RunSteps(Tail(todo), dq, lq, -1)

SInit ==
    /\ messages = <<>>
    /\ display_index = -1
    /\ osc_index = -1
    /\ active_task_id = 0
    /\ messages_dirty = FALSE
    /\ w_pc = "wait"
    /\ timers = <<>>
    /\ file_msgs = <<>>
    /\ sm_todo = <<>>
    /\ display_queue = <<>>
    /\ led_queue = <<>>
    /\ led_alert = 0
    /\ osc_out = <<>>
    /\ arrivals = 0
    /\ since_write = 0
    /\ write_failed = FALSE

\* ujson.dumps of one message (line 157): the members of its JSON object in
\* writing order, each a pair of key and value (id is history and travels
\* with the message)
JsonObjectSwapped(entry) ==
    << <<"type", entry.type>>, <<"value", entry.state>>, <<"state", entry.value>>,
       <<"timestamp", entry.timestamp>>, <<"id", entry.id>> >>
JsonObject(entry) ==
    << <<"type", entry.type>>, <<"value", entry.value>>, <<"state", entry.state>>,
       <<"timestamp", entry.timestamp>>, <<"id", entry.id>> >>
\* ujson.dumps(temp_messages), line 157: the JSON array of the objects
JsonDumps(msgs) == [k \in 1..Len(msgs) |-> JsonObject(msgs[k])]
\* the value of the member key of a JSON object
JsonMember(obj, key) == obj[CHOOSE k \in 1..Len(obj) : obj[k][1] = key][2]
\* ujson.loads(data) if data else [], line 135: a dict per object of the array,
\* [] for a file with no array in it
JsonLoads(data) ==
    [k \in 1..Len(data) |->
        [type |-> JsonMember(data[k], "type"), value |-> JsonMember(data[k], "value"),
         state |-> JsonMember(data[k], "state"),
         timestamp |-> JsonMember(data[k], "timestamp"), id |-> JsonMember(data[k], "id")]]

\* messages.txt as an earlier run left it at the cap: five messages in the
\* states that run gave them (their ids are the numbers up to 0)
LoadedStates == <<"show", "accepted", "wait", "show", "rejected">>
LoadedLedger ==
    [k \in 1..max_messages |->
        [type |-> "PICKUP", value |-> "v", state |-> LoadedStates[k],
         timestamp |-> "01.11.2026 12:00", id |-> k - max_messages]]

\* messages.txt as an earlier run left it below the cap: its last message
ShortLedger == <<LoadedLedger[max_messages]>>

\* __init__ with messages.txt empty or holding ShortLedger or LoadedLedger:
\* _load_messages_from_file reads the ledger from it
SInitLoaded ==
    /\ file_msgs \in {JsonDumps(<<>>), JsonDumps(ShortLedger), JsonDumps(LoadedLedger)}
    /\ messages = JsonLoads(file_msgs)
    /\ display_index = -1
    /\ osc_index = -1
    /\ active_task_id = 0
    /\ messages_dirty = FALSE
    /\ w_pc = "wait"
    /\ timers = <<>>
    /\ sm_todo = <<>>
    /\ display_queue = <<>>
    /\ led_queue = <<>>
    /\ led_alert = 0
    /\ osc_out = <<>>
    /\ arrivals = 0
    /\ since_write = 0
    /\ write_failed = FALSE

\* the queue puts at the end of a handler, as far as they can run
Finish(todo, di) ==
    LET r == RunSteps(todo, display_queue, led_queue, di)
    IN  /\ sm_todo' = r.todo
        /\ display_queue' = r.dq
        /\ led_queue' = r.lq
        /\ display_index' = r.di

\* _handle_pickup / _handle_emergency / _handle_parking: one new message
HandleArrival(kind, value, text, ts) ==
    /\ sm_todo = <<>>
    /\ messages' = Append(messages, [type |-> kind, value |-> value, state |-> "wait",
                                     timestamp |-> ts, id |-> arrivals + 1])
    /\ messages_dirty' = TRUE
    /\ osc_index' = IF osc_index # -1 THEN osc_index - 1 ELSE osc_index
    /\ osc_out' = <<>>
    /\ arrivals' = arrivals + 1
    /\ since_write' = since_write + 1
    /\ Finish(NewTextSteps(text), Len(messages') - 1)
    /\ UNCHANGED <<active_task_id, w_pc, timers, file_msgs, led_alert, write_failed>>

\* run, lines 243-244: a PICKUP event
HandlePickup(value, ts) ==
    HandleArrival("PICKUP", value, <<"Kind abholen: ", value>>, ts)

\* run, lines 247-248: an EMERGENCY event
HandleEmergency(ts) ==
    HandleArrival("EMERGENCY", EmergencyValue, <<"Ersthelfer zum Kids Check-In">>, ts)

\* run, lines 245-246: a PARKING event
HandleParking(value, ts) ==
    HandleArrival("PARKING", value, <<"Umparken: ", value>>, ts)

\* run, lines 238-240: BUTTON_PRESSED / ACCEPT
HandleAccept ==
    /\ sm_todo = <<>>
    /\ display_index # -1 => active_task_id < MaxAccepts
    /\ LET shown == UpdatedMessages(messages, osc_index, "show")
       IN  IF display_index # -1
             THEN /\ messages' = UpdatedMessages(shown, display_index, "accepted")
                  /\ messages_dirty' = TRUE
                  /\ osc_out' = AcceptPackets(messages[display_index + 1])
                  /\ osc_index' = display_index
                  /\ active_task_id' = NextTaskId(active_task_id)
                  /\ timers' = Append(timers, [index |-> display_index,
                                               task_id |-> NextTaskId(active_task_id),
                                               msg |-> messages[display_index + 1].id])
                  /\ Finish(DeleteTextSteps, display_index)
             ELSE /\ messages' = shown
                  /\ messages_dirty' = (messages_dirty \/ ValidIndex(messages, osc_index))
                  /\ osc_out' = <<>>
                  /\ UNCHANGED <<osc_index, active_task_id, timers, sm_todo, display_queue,
                                 led_queue, display_index>>
    /\ UNCHANGED <<w_pc, file_msgs, led_alert, arrivals, since_write, write_failed>>

\* run, lines 241-242: BUTTON_PRESSED / REJECT
HandleReject ==
    /\ sm_todo = <<>>
    /\ osc_out' = RejectPackets
    /\ IF display_index # -1
         THEN /\ messages' = UpdatedMessages(messages, display_index, "rejected")
              /\ messages_dirty' = TRUE
              /\ Finish(DeleteTextSteps, display_index)
         ELSE /\ messages' = UpdatedMessages(messages, osc_index, "show")
              /\ messages_dirty' = (messages_dirty \/ ValidIndex(messages, osc_index))
              /\ UNCHANGED <<sm_todo, display_queue, led_queue, display_index>>
    /\ UNCHANGED <<osc_index, active_task_id, w_pc, timers, file_msgs, led_alert, arrivals,
                   since_write, write_failed>>

\* a handler suspended in a put runs on once its queue has space
HandlerResume ==
    /\ sm_todo # <<>>
    /\ Finish(sm_todo, display_index)
    /\ sm_todo' # sm_todo
    /\ UNCHANGED <<messages, osc_index, active_task_id, messages_dirty, w_pc, timers,
                   file_msgs, led_alert, arrivals, since_write, write_failed>>
    /\ osc_out' = <<>>

\* auto_clear, lines 305-318: the oldest sleeping auto_clear task wakes up
AutoClear ==
    /\ timers # <<>>
    /\ LET t == Head(timers)
       IN  IF t.task_id # active_task_id
             THEN /\ osc_out' = <<>>
                  /\ UNCHANGED <<messages, messages_dirty, osc_index>>
             ELSE /\ osc_out' = AutoClearPackets
                  /\ messages' = UpdatedMessages(messages, t.index, "show")
                  /\ messages_dirty' = (messages_dirty \/ ValidIndex(messages, t.index))
                  /\ osc_index' = -1
    /\ timers' = Tail(timers)
    /\ UNCHANGED <<display_index, active_task_id, w_pc, file_msgs, sm_todo, display_queue,
                   led_queue, led_alert, arrivals, since_write, write_failed>>

\* _file_writer_task, lines 171-173: dirty is set; clear it and sleep 500 ms
WriterWakeNoClear ==
    /\ w_pc = "wait"
    /\ messages_dirty
    /\ w_pc' = "sleep"
    /\ UNCHANGED <<messages, display_index, osc_index, active_task_id, timers, file_msgs,
                   sm_todo, display_queue, led_queue, led_alert, arrivals,
                   since_write, write_failed, messages_dirty>>
    /\ osc_out' = <<>>
WriterWake ==
    /\ w_pc = "wait"
    /\ messages_dirty
    /\ messages_dirty' = FALSE
    /\ w_pc' = "sleep"
    /\ UNCHANGED <<messages, display_index, osc_index, active_task_id, timers, file_msgs,
                   sm_todo, display_queue, led_queue, led_alert, arrivals,
                   since_write, write_failed>>
    /\ osc_out' = <<>>

\* _file_writer_task, line 174: _write_messages_to_file; the file write may
\* fail, in open (the file stays as it was) or after open has emptied the file
WriterWrite(ok) ==
    /\ w_pc = "sleep"
    /\ messages' = Truncated(messages)
    /\ display_index' = IF RemovedCount(messages) > 0 /\ display_index # -1
                          THEN Max(-1, display_index - RemovedCount(messages))
                          ELSE display_index
    /\ file_msgs' \in IF ok THEN {JsonDumps(Truncated(messages))} ELSE {file_msgs, <<>>}
    /\ w_pc' = "wait"
    /\ since_write' = 0
    /\ write_failed' = ~ok
    /\ UNCHANGED <<osc_index, active_task_id, messages_dirty, timers, sm_todo,
                   display_queue, led_queue, led_alert, arrivals>>
    /\ osc_out' = <<>>

\* a display task that takes no command
DisplayQueueDrainNone ==
    /\ display_queue # <<>>
    /\ UNCHANGED <<messages, display_index, osc_index, active_task_id, messages_dirty, w_pc,
                   timers, file_msgs, sm_todo, led_queue, led_alert, arrivals,
                   since_write, write_failed, display_queue>>
    /\ osc_out' = <<>>
\* DisplayManager.run, lines 221-223: once it runs, the display task takes
\* command after command without suspending until the queue is empty
DisplayQueueDrain ==
    /\ display_queue # <<>>
    /\ display_queue' = <<>>
    /\ UNCHANGED <<messages, display_index, osc_index, active_task_id, messages_dirty, w_pc,
                   timers, file_msgs, sm_todo, led_queue, led_alert, arrivals,
                   since_write, write_failed>>
    /\ osc_out' = <<>>

\* _led_task without its OFF branch (lines 91-92)
RECURSIVE LedAfterNoOff(_, _)
LedAfterNoOff(level, cmds) ==
    IF cmds = <<>> THEN level
    ELSE LedAfterNoOff(IF Head(cmds).state = "ON" THEN 1 ELSE level, Tail(cmds))
\* the LED pin after the commands cmds (_led_task, lines 86-95)
RECURSIVE LedAfter(_, _)
LedAfter(level, cmds) ==
    IF cmds = <<>> THEN level
    ELSE LedAfter(IF Head(cmds).state = "ON" THEN 1
                  ELSE IF Head(cmds).state = "OFF" THEN 0 ELSE level, Tail(cmds))

\* Hardware._led_task, lines 84-95: once it runs, the LED task takes command
\* after command without suspending until the queue is empty
LedTask ==
    /\ led_queue # <<>>
    /\ led_queue' = <<>>
    /\ led_alert' = LedAfter(led_alert, led_queue)
    /\ UNCHANGED <<messages, display_index, osc_index, active_task_id, messages_dirty, w_pc,
                   timers, file_msgs, sm_todo, display_queue, arrivals, since_write, write_failed>>
    /\ osc_out' = <<>>

\* the states a message can be in
States == {"wait", "accepted", "rejected", "show"}
\* the ledgers update_state is called on: up to MaxUpdateLen messages
UpdateLedgers ==
    UNION { [1..n -> [type : {"PICKUP"}, value : {"v"}, state : States,
                      timestamp : {"01.11.2026 12:00"}, id : 1..MaxUpdateLen]] :
            n \in 0..MaxUpdateLen }
\* the indices update_state is called with
UpdateIndexes == (-MaxUpdateIndex)..MaxUpdateIndex
NoCall == [made |-> FALSE, index |-> -1, new_state |-> "wait", raised |-> FALSE]

UInit == us_call = NoCall

\* a StateManager whose ledger is one of UpdateLedgers
SInitUpdate ==
    /\ messages \in {m \in UpdateLedgers : \A k \in 1..Len(m) : m[k].id = k}
    /\ file_msgs = <<>>
    /\ display_index = -1
    /\ osc_index = -1
    /\ active_task_id = 0
    /\ messages_dirty \in BOOLEAN
    /\ w_pc = "wait"
    /\ timers = <<>>
    /\ sm_todo = <<>>
    /\ display_queue = <<>>
    /\ led_queue = <<>>
    /\ led_alert = 0
    /\ osc_out = <<>>
    /\ arrivals = 0
    /\ since_write = 0
    /\ write_failed = FALSE

\* update_state(index, new_state), lines 254-261
UpdateStateCall(index, new_state) ==
    LET r == UpdateStateResult(messages, messages_dirty, index, new_state)
    IN  /\ messages' = r.msgs
        /\ messages_dirty' = r.dirty
        /\ us_call' = [made |-> TRUE, index |-> index, new_state |-> new_state,
                       raised |-> r.raised]
        /\ UNCHANGED <<display_index, osc_index, active_task_id, w_pc, timers, file_msgs,
                       sm_todo, display_queue, led_queue, led_alert, osc_out, arrivals,
                       since_write, write_failed>>

UNext ==
    \E index \in UpdateIndexes, new_state \in States :
        UpdateStateCall(index, new_state) /\ UNCHANGED <<qvars, bvars, ovars, gvars, dvars, tvars>>

\* the display task and the LED task, both made runnable by the puts of a
\* handler, run before the state machine takes its next event
ConsumersRun ==
    /\ display_queue # <<>> \/ led_queue # <<>>
    /\ display_queue' = <<>>
    /\ led_queue' = <<>>
    /\ led_alert' = LedAfter(led_alert, led_queue)
    /\ UNCHANGED <<messages, display_index, osc_index, active_task_id, messages_dirty, w_pc,
                   timers, file_msgs, sm_todo, arrivals, since_write, write_failed>>
    /\ osc_out' = <<>>

\* the events of the kinds in kinds on the event queue, at most n of them
Arrival(n, kinds) ==
    /\ arrivals < n
    /\ \/ "PICKUP" \in kinds /\ \E v \in Values, ts \in Timestamps : HandlePickup(v, ts)
       \/ "EMERGENCY" \in kinds /\ \E ts \in Timestamps : HandleEmergency(ts)
       \/ "PARKING" \in kinds /\ \E v \in Values, ts \in Timestamps : HandleParking(v, ts)

\* the kinds of message the web server sends (handle_post), arriving while
\* the buttons are used
StateKinds == {"PICKUP", "EMERGENCY"}

\* the state machine with the buttons, the timers, the writer (the file
\* system works) and the queue consumers
SNext ==
    \/ Arrival(MaxArrivals, StateKinds) /\ UNCHANGED <<qvars, bvars, uvars, ovars, gvars, dvars, tvars>>
    \/ HandleAccept /\ UNCHANGED <<qvars, bvars, uvars, ovars, gvars, dvars, tvars>>
    \/ HandleReject /\ UNCHANGED <<qvars, bvars, uvars, ovars, gvars, dvars, tvars>>
    \/ AutoClear /\ UNCHANGED <<qvars, bvars, uvars, ovars, gvars, dvars, tvars>>
    \/ WriterWake /\ UNCHANGED <<qvars, bvars, uvars, ovars, gvars, dvars, tvars>>
    \/ WriterWrite(TRUE) /\ UNCHANGED <<qvars, bvars, uvars, ovars, gvars, dvars, tvars>>
    \/ ConsumersRun /\ UNCHANGED <<qvars, bvars, uvars, ovars, gvars, dvars, tvars>>

\* messages of all three kinds arriving and being accepted and written back
ANext ==
    \/ Arrival(MaxArrivals, Kinds) /\ UNCHANGED <<qvars, bvars, uvars, ovars, gvars, dvars, tvars>>
    \/ HandleAccept /\ UNCHANGED <<qvars, bvars, uvars, ovars, gvars, dvars, tvars>>
    \/ WriterWake /\ UNCHANGED <<qvars, bvars, uvars, ovars, gvars, dvars, tvars>>
    \/ WriterWrite(TRUE) /\ UNCHANGED <<qvars, bvars, uvars, ovars, gvars, dvars, tvars>>
    \/ ConsumersRun /\ UNCHANGED <<qvars, bvars, uvars, ovars, gvars, dvars, tvars>>

\* the kinds of message that arrive while the ledger is filled
LedgerKinds == {"PICKUP", "EMERGENCY"}

\* messages arriving and being written back, nobody pressing a button
LNext ==
    \/ Arrival(MaxInserts, LedgerKinds) /\ UNCHANGED <<qvars, bvars, uvars, ovars, gvars, dvars, tvars>>
    \/ WriterWake /\ UNCHANGED <<qvars, bvars, uvars, ovars, gvars, dvars, tvars>>
    \/ \E ok \in BOOLEAN : WriterWrite(ok) /\ UNCHANGED <<qvars, bvars, uvars, ovars, gvars, dvars, tvars>>
    \/ DisplayQueueDrain /\ UNCHANGED <<qvars, bvars, uvars, ovars, gvars, dvars, tvars>>
    \/ LedTask /\ UNCHANGED <<qvars, bvars, uvars, ovars, gvars, dvars, tvars>>

(***************************************************************************)
(* The OSC encoder: strings are sequences of code points, packets are      *)
(* sequences of bytes                                                      *)
(***************************************************************************)

\* "/composition/layers/6/video/opacity"
PARAM_PATH_OPACITY ==
    <<47, 99, 111, 109, 112, 111, 115, 105, 116, 105, 111, 110, 47, 108,
      97, 121, 101, 114, 115, 47, 54, 47, 118, 105, 100, 101, 111, 47,
      111, 112, 97, 99, 105, 116, 121>>
\* "/composition/layers/6/clips/1/video/effects/textblock/effect/text/params/lines"
PARAM_PATH ==
    <<47, 99, 111, 109, 112, 111, 115, 105, 116, 105, 111, 110, 47, 108,
      97, 121, 101, 114, 115, 47, 54, 47, 99, 108, 105, 112, 115, 47, 49,
      47, 118, 105, 100, 101, 111, 47, 101, 102, 102, 101, 99, 116, 115,
      47, 116, 101, 120, 116, 98, 108, 111, 99, 107, 47, 101, 102, 102,
      101, 99, 116, 47, 116, 101, 120, 116, 47, 112, 97, 114, 97, 109,
      115, 47, 108, 105, 110, 101, 115>>
\* "/composition/layers/6/clips/1/connect"
PARAM_PATH_CONNECT ==
    <<47, 99, 111, 109, 112, 111, 115, 105, 116, 105, 111, 110, 47, 108,
      97, 121, 101, 114, 115, 47, 54, 47, 99, 108, 105, 112, 115, 47, 49,
      47, 99, 111, 110, 110, 101, 99, 116>>

\* str.encode('utf-8') of one code point
Utf8(cp) ==
    IF cp < 128 THEN <<cp>>
    ELSE IF cp < 2048 THEN <<192 + (cp \div 64), 128 + (cp % 64)>>
    ELSE IF cp < 65536
      THEN <<224 + (cp \div 4096), 128 + ((cp \div 64) % 64), 128 + (cp % 64)>>
    ELSE <<240 + (cp \div 262144), 128 + ((cp \div 4096) % 64), 128 + ((cp \div 64) % 64),
           128 + (cp % 64)>>

\* s.encode('utf-8'), line 182
RECURSIVE Encode(_)
Encode(s) == IF s = <<>> THEN <<>> ELSE Utf8(Head(s)) \o Encode(Tail(s))

\* k NUL bytes
Nuls(k) == [j \in 1..k |-> 0]

\* _osc_encode_string, lines 180-184
OscEncodeStringNoNul(s) ==
    LET b == Encode(s)
        padding == (4 - (Len(b) % 4)) % 4
    IN  b \o Nuls(padding)
OscEncodeString(s) ==
    LET b == Encode(s) \o <<0>>
        padding == (4 - (Len(b) % 4)) % 4
    IN  b \o Nuls(padding)

\* _osc_encode_int, lines 190-192: struct.pack('>i', i), the four bytes of
\* the two's complement of i, highest first
OscEncodeInt(i) ==
    LET low == IF i >= 0 THEN i ELSE (i + 2147483647) + 1
        top == IF i >= 0 THEN 0 ELSE 128
    IN  <<top + (low \div 16777216), (low \div 65536) % 256, (low \div 256) % 256, low % 256>>

\* _osc_encode_float, lines 186-188: struct.pack('>f', f) for the floats
\* n/2 of the model: 0.0 is 00000000, 0.5 is 3F000000, 1.0 is 3F800000,
\* -0.5 is BF000000, -1.0 is BF800000
OscEncodeFloat(halves) ==
    LET sign == IF halves < 0 THEN 128 ELSE 0
    IN  IF halves = 0 THEN <<0, 0, 0, 0>>
        ELSE IF halves = 1 \/ halves = -1 THEN <<sign + 63, 0, 0, 0>>
        ELSE <<sign + 63, 128, 0, 0>>

\* the Python values of the model: an int n, a float n/2, a str of code
\* points, None and a list
IntArg(n) == [kind |-> "int", val |-> <<n>>]
FloatArg(halves) == [kind |-> "float", val |-> <<halves>>]
StrArg(s) == [kind |-> "str", val |-> s]
NoneArg == [kind |-> "none", val |-> <<>>]
ListArg == [kind |-> "list", val |-> <<>>]

\* the outcome of a call: it raised, or it returned the bytes out
Raised == [raised |-> TRUE, out |-> <<>>]
Returned(bytes) == [raised |-> FALSE, out |-> bytes]

\* _osc_build_message, lines 194-205
OscBuildMessageNoRaise(address, arg) ==
    LET msg == OscEncodeString(address)
    IN  IF arg.kind = "int"
          THEN Returned(msg \o OscEncodeString(<<44, 105>>) \o OscEncodeInt(arg.val[1]))
        ELSE IF arg.kind = "float"
          THEN Returned(msg \o OscEncodeString(<<44, 102>>) \o OscEncodeFloat(arg.val[1]))
        ELSE IF arg.kind = "str"
          THEN Returned(msg \o OscEncodeString(<<44, 115>>) \o OscEncodeString(arg.val))
        ELSE Returned(msg)
OscBuildMessage(address, arg) ==
    LET msg == OscEncodeString(address)
    IN  IF arg.kind = "int"
          THEN Returned(msg \o OscEncodeString(<<44, 105>>) \o OscEncodeInt(arg.val[1]))
        ELSE IF arg.kind = "float"
          THEN Returned(msg \o OscEncodeString(<<44, 102>>) \o OscEncodeFloat(arg.val[1]))
        ELSE IF arg.kind = "str"
          THEN Returned(msg \o OscEncodeString(<<44, 115>>) \o OscEncodeString(arg.val))
        ELSE Raised

\* float(value), line 210: the strings of the model spell no number
ToFloat(arg) ==
    IF arg.kind = "int" THEN [raised |-> FALSE, arg |-> FloatArg(2 * arg.val[1])]
    ELSE IF arg.kind = "float" THEN [raised |-> FALSE, arg |-> arg]
    ELSE [raised |-> TRUE, arg |-> arg]

\* int(value), line 212: a float is cut off towards zero
ToInt(arg) ==
    IF arg.kind = "int" THEN [raised |-> FALSE, arg |-> arg]
    ELSE IF arg.kind = "float" THEN [raised |-> FALSE, arg |-> IntArg(arg.val[1] \div 2)]
    ELSE [raised |-> TRUE, arg |-> arg]

\* _send_resolume_message without the conversions of lines 209-212
SendResolumeMessageNoConvert(path, value) ==
    LET built == OscBuildMessage(path, value)
    IN  [raised |-> FALSE, sent |-> IF built.raised THEN <<>> ELSE <<built.out>>]
\* _send_resolume_message, lines 207-218: the datagrams given to sendto;
\* every exception ends in the except clause, which logs it
SendResolumeMessage(path, value) ==
    LET conv == IF path = PARAM_PATH_OPACITY THEN ToFloat(value)
                ELSE IF path = PARAM_PATH_CONNECT THEN ToInt(value)
                ELSE [raised |-> FALSE, arg |-> value]
        built == IF conv.raised THEN Raised ELSE OscBuildMessage(path, conv.arg)
    IN  [raised |-> FALSE, sent |-> IF built.raised THEN <<>> ELSE <<built.out>>]

\* the code points of the strings: "/", "a", a-umlaut (2 bytes), the euro sign
\* (3 bytes) and an emoji (4 bytes)
CodePoints == {47, 97, 228, 8364, 128512}
\* the strings of up to MaxStringLen code points
Strings == UNION {[1..n -> CodePoints] : n \in 0..MaxStringLen}
\* the addresses packets are built for
Addresses == {PARAM_PATH, PARAM_PATH_OPACITY, PARAM_PATH_CONNECT, <<47, 97>>}
\* the arguments packets are built for
Args == {IntArg(n) : n \in {-1, 0, 1}} \cup {FloatArg(h) : h \in 0..2}
        \cup {StrArg(s) : s \in {<<>>, <<97>>, <<97, 228, 8364>>}} \cup {NoneArg, ListArg}

NoOscCall == [fn |-> "", address |-> <<>>, arg |-> NoneArg, raised |-> FALSE,
              out |-> <<>>, sent |-> <<>>]

OInit == osc_call = NoOscCall

\* _osc_encode_string(s) called
EncodeStringCall(s) ==
    osc_call' = [fn |-> "_osc_encode_string", address |-> s, arg |-> NoneArg,
                 raised |-> FALSE, out |-> OscEncodeString(s), sent |-> <<>>]

\* _osc_build_message(address, arg) called
BuildMessageCall(address, arg) ==
    LET r == OscBuildMessage(address, arg)
    IN  osc_call' = [fn |-> "_osc_build_message", address |-> address, arg |-> arg,
                     raised |-> r.raised, out |-> r.out, sent |-> <<>>]

\* _send_resolume_message(path, value) called
SendResolumeCall(path, value) ==
    LET r == SendResolumeMessage(path, value)
    IN  osc_call' = [fn |-> "_send_resolume_message", address |-> path, arg |-> value,
                     raised |-> r.raised, out |-> <<>>, sent |-> r.sent]

ONext ==
    \/ \E s \in Strings \cup Addresses :
           EncodeStringCall(s) /\ UNCHANGED <<qvars, bvars, svars, uvars, gvars, dvars, tvars>>
    \/ \E address \in Addresses, arg \in Args :
           BuildMessageCall(address, arg) /\ UNCHANGED <<qvars, bvars, svars, uvars, gvars, dvars, tvars>>
    \/ \E path \in Addresses, value \in Args :
           SendResolumeCall(path, value) /\ UNCHANGED <<qvars, bvars, svars, uvars, gvars, dvars, tvars>>

(***************************************************************************)
(* AsyncLogger: the buffered log file and its rotation                     *)
(***************************************************************************)

LOG_FILE == "system.log"
BACKUP_LOG_FILE == "system.log.old"

\* the bytes a line logged by the program adds to the file: a short line
\* and a line that fills the file up to 48 bytes below the limit
LineSizes == {48, 20432}

\* the name os.rename moves the log file to, line 60
RotationTargetNumbered(n) == IF n % 2 = 0 THEN "system.log.old" ELSE "system.log.old.1"
RotationTarget(n) == BACKUP_LOG_FILE

\* os.rename(old, new): new is replaced if it exists
Rename(f, old, new) ==
    [n \in (DOMAIN f \ {old}) \cup {new} |-> IF n = new THEN f[old] ELSE f[n]]

\* open(name, "a") and the writes of bytes bytes; the file is created if missing
AppendTo(f, name, bytes, now) ==
    [n \in DOMAIN f \cup {name} |->
        IF n # name THEN f[n]
        ELSE IF name \in DOMAIN f
          THEN [size |-> f[name].size + bytes, born |-> f[name].born]
        ELSE [size |-> bytes, born |-> now]]

RECURSIVE Sum(_)
Sum(sizes) == IF sizes = <<>> THEN 0 ELSE Head(sizes) + Sum(Tail(sizes))

\* _check_rotation, lines 56-57: the log file exists and is over the limit
OverLimit(f) == LOG_FILE \in DOMAIN f /\ f[LOG_FILE].size > max_log_size

\* a device without log files
GInit ==
    /\ log_buffer = <<>>
    /\ fs = [n \in {} |-> 0]
    /\ log_last = "none"
    /\ log_calls = 0
    /\ log_flushes = 0
    /\ log_rotations = 0

\* AsyncLogger.log, lines 46-51
LogCall(bytes) ==
    /\ log_calls < MaxLogCalls
    /\ log_buffer' = Append(log_buffer, bytes)
    /\ log_calls' = log_calls + 1
    /\ UNCHANGED <<fs, log_last, log_flushes, log_rotations>>

\* AsyncLogger.run, lines 71-83, with _check_rotation, lines 53-66: one flush
\* of a buffer that is not empty; os.rename and open may raise
LoggerRun(rename_ok, write_ok) ==
    /\ log_buffer # <<>>
    /\ log_flushes < MaxFlushes
    /\ LET current_chunk == log_buffer
           rotated == OverLimit(fs) /\ rename_ok
           fs1 == IF rotated THEN Rename(fs, LOG_FILE, RotationTarget(log_rotations))
                  ELSE fs
           buf1 == IF ~OverLimit(fs) THEN <<>>
                   ELSE IF rename_ok THEN <<RotatedLineSize>>
                   ELSE <<RotationErrorLineSize>>
       IN  /\ fs' = IF write_ok
                      THEN AppendTo(fs1, LOG_FILE, Sum(current_chunk), log_flushes + 1)
                      ELSE fs1
           /\ log_buffer' = IF write_ok THEN buf1 ELSE Append(buf1, WriteErrorLineSize)
           /\ log_last' = IF ~OverLimit(fs) THEN "none"
                          ELSE IF rename_ok THEN "done" ELSE "failed"
           /\ log_rotations' = IF rotated THEN log_rotations + 1 ELSE log_rotations
    /\ log_flushes' = log_flushes + 1
    /\ UNCHANGED log_calls

GNext ==
    \/ \E bytes \in LineSizes :
           LogCall(bytes) /\ UNCHANGED <<qvars, bvars, svars, uvars, ovars, dvars, tvars>>
    \/ \E rename_ok, write_ok \in BOOLEAN :
           LoggerRun(rename_ok, write_ok) /\ UNCHANGED <<qvars, bvars, svars, uvars, ovars, dvars, tvars>>

(***************************************************************************)
(* DisplayManager: the cell shared with the render thread                  *)
(***************************************************************************)

\* the threads _thread.start_new_thread can give
RenderThreads == {"t1", "t2"}

\* the texts of the NEWTEXT commands: "a" and a-umlaut followed by "!"
Texts == {<<97>>, <<228, 33>>}

\* _sanitize_text, lines 79-81: the replacement of one character
Replaced(c) ==
    IF c = 228 THEN <<97, 101>> ELSE IF c = 246 THEN <<111, 101>>
    ELSE IF c = 252 THEN <<117, 101>> ELSE IF c = 196 THEN <<65, 101>>
    ELSE IF c = 214 THEN <<79, 101>> ELSE IF c = 220 THEN <<85, 101>>
    ELSE IF c = 223 THEN <<115, 115>> ELSE <<c>>
\* _sanitize_text, lines 84-94: the characters that are kept
Allowed(c) ==
    \/ (c >= 48 /\ c <= 57) \/ (c >= 65 /\ c <= 90) \/ (c >= 97 /\ c <= 122)
    \/ c = 32 \/ c = 46 \/ c = 45
\* _sanitize_text, lines 77-96
RECURSIVE Sanitize(_)
Sanitize(text) ==
    IF text = <<>> THEN <<>>
    ELSE LET r == Replaced(Head(text))
         IN  (IF Allowed(r[1]) THEN r ELSE <<>>) \o Sanitize(Tail(text))

\* acquiring self._core1_lock blocks while another context holds it
CanAcquireAlways(holder) == TRUE
CanAcquire(holder) == holder = "free"

\* __init__, lines 38-49 (w = 0: the cell as the constructor leaves it)
DInit ==
    /\ current_text = <<>>
    /\ core1_text = [val |-> <<>>, w |-> 0]
    /\ core1_power_on = [val |-> FALSE, w |-> 0]
    /\ core1_lock = "free"
    /\ core1_running = FALSE
    /\ c0_pc = "idle"
    /\ c0_arg = [text |-> <<>>, power |-> FALSE]
    /\ th_pc = [t \in RenderThreads |-> "off"]
    /\ th_new_text = [t \in RenderThreads |-> [val |-> <<>>, w |-> 0]]
    /\ th_is_power_on = [t \in RenderThreads |-> [val |-> FALSE, w |-> 0]]
    /\ th_text = [t \in RenderThreads |-> <<>>]
    /\ framebuffer = <<>>
    /\ device_power = "off"
    /\ device_shown = <<>>
    /\ d_writes = 0
    /\ d_commands = 0

c0vars == <<current_text, core1_text, core1_power_on, core1_running, c0_pc, c0_arg, d_writes,
            d_commands>>
thvars == <<th_pc, th_new_text, th_is_power_on, th_text, framebuffer, device_power,
            device_shown>>

\* handle_event, lines 116-120: NEWTEXT
HandleNewText(text) ==
    /\ c0_pc = "idle"
    /\ d_commands < MaxCommands
    /\ d_commands' = d_commands + 1
    /\ IF text # current_text
         THEN /\ current_text' = text
              /\ c0_arg' = [text |-> Sanitize(text), power |-> TRUE]
              /\ c0_pc' = "lock"
         ELSE UNCHANGED <<current_text, c0_arg, c0_pc>>
    /\ UNCHANGED <<core1_text, core1_power_on, core1_lock, core1_running, d_writes, thvars>>

\* handle_event, lines 122-124: DELETETEXT
HandleDeleteText ==
    /\ c0_pc = "idle"
    /\ d_commands < MaxCommands
    /\ d_commands' = d_commands + 1
    /\ current_text' = <<>>
    /\ c0_arg' = [text |-> <<>>, power |-> FALSE]
    /\ c0_pc' = "lock"
    /\ UNCHANGED <<core1_text, core1_power_on, core1_lock, core1_running, d_writes, thvars>>

\* _update_text_and_power, line 105: with self._core1_lock
UpdateLock ==
    /\ c0_pc = "lock"
    /\ CanAcquire(core1_lock)
    /\ core1_lock' = "core0"
    /\ c0_pc' = "text"
    /\ UNCHANGED <<current_text, core1_text, core1_power_on, core1_running, c0_arg, d_writes,
                   d_commands, thvars>>

\* _update_text_and_power, line 106
UpdateText ==
    /\ c0_pc = "text"
    /\ core1_text' = [val |-> c0_arg.text, w |-> d_writes + 1]
    /\ c0_pc' = "power"
    /\ UNCHANGED <<current_text, core1_power_on, core1_lock, core1_running, c0_arg, d_writes,
                   d_commands, thvars>>

\* _update_text_and_power, line 107
UpdatePower ==
    /\ c0_pc = "power"
    /\ core1_power_on' = [val |-> c0_arg.power, w |-> d_writes + 1]
    /\ d_writes' = d_writes + 1
    /\ c0_pc' = "unlock"
    /\ UNCHANGED <<current_text, core1_text, core1_lock, core1_running, c0_arg, d_commands,
                   thvars>>

\* _update_text_and_power: the end of the with block
UpdateUnlock ==
    /\ c0_pc = "unlock"
    /\ core1_lock' = "free"
    /\ c0_pc' = "check"
    /\ UNCHANGED <<current_text, core1_text, core1_power_on, core1_running, c0_arg, d_writes,
                   d_commands, thvars>>

\* _update_text_and_power, lines 109-110: start_new_thread gives a thread, or,
\* when one was started before, may raise (the second core is in use)
UpdateStart ==
    /\ c0_pc = "check"
    /\ IF core1_running
         THEN c0_pc' = "idle" /\ UNCHANGED th_pc
         ELSE \/ \E t \in RenderThreads :
                    /\ th_pc[t] = "off"
                    /\ t = "t1" \/ th_pc["t1"] # "off"
                    /\ th_pc' = [th_pc EXCEPT ![t] = "start"]
                    /\ c0_pc' = "idle"
              \/ /\ \E t \in RenderThreads : th_pc[t] # "off"
                 /\ c0_pc' = "dead"
                 /\ UNCHANGED th_pc
    /\ UNCHANGED <<current_text, core1_text, core1_power_on, core1_lock, core1_running, c0_arg,
                   d_writes, d_commands, th_new_text, th_is_power_on, th_text, framebuffer,
                   device_power, device_shown>>

\* _core1_scroll_thread, lines 152-157
ThreadStart(t) ==
    /\ th_pc[t] = "start"
    /\ core1_running' = TRUE
    /\ th_text' = [th_text EXCEPT ![t] = <<>>]
    /\ th_pc' = [th_pc EXCEPT ![t] = "lock"]
    /\ UNCHANGED <<current_text, core1_text, core1_power_on, core1_lock, c0_pc, c0_arg,
                   d_writes, d_commands, th_new_text, th_is_power_on, framebuffer,
                   device_power, device_shown>>

\* _core1_scroll_thread, line 161: with self._core1_lock
ThreadLock(t) ==
    /\ th_pc[t] = "lock"
    /\ CanAcquire(core1_lock)
    /\ core1_lock' = t
    /\ th_pc' = [th_pc EXCEPT ![t] = "read_text"]
    /\ UNCHANGED <<c0vars, th_new_text, th_is_power_on, th_text, framebuffer, device_power,
                   device_shown>>

\* _core1_scroll_thread, line 162
ThreadReadText(t) ==
    /\ th_pc[t] = "read_text"
    /\ th_new_text' = [th_new_text EXCEPT ![t] = core1_text]
    /\ th_pc' = [th_pc EXCEPT ![t] = "read_power"]
    /\ UNCHANGED <<c0vars, core1_lock, th_is_power_on, th_text, framebuffer, device_power,
                   device_shown>>

\* _core1_scroll_thread, line 163
ThreadReadPower(t) ==
    /\ th_pc[t] = "read_power"
    /\ th_is_power_on' = [th_is_power_on EXCEPT ![t] = core1_power_on]
    /\ th_pc' = [th_pc EXCEPT ![t] = "unlock"]
    /\ UNCHANGED <<c0vars, core1_lock, th_new_text, th_text, framebuffer, device_power,
                   device_shown>>

\* _core1_scroll_thread: the end of the with block of line 161
ThreadUnlock(t) ==
    /\ th_pc[t] = "unlock"
    /\ core1_lock' = "free"
    /\ th_pc' = [th_pc EXCEPT ![t] = "decide"]
    /\ UNCHANGED <<c0vars, th_new_text, th_is_power_on, th_text, framebuffer, device_power,
                   device_shown>>

\* _core1_scroll_thread, lines 165-195, and _render_text, lines 203-211: power
\* off and sleep; or power on and draw a new text; or, the text being the
\* old one, draw the next frame of a text that scrolls (again is TRUE) or
\* sleep 200 ms
ThreadDecide(t, again) ==
    /\ th_pc[t] = "decide"
    /\ IF ~th_is_power_on[t].val
         THEN /\ device_power' = "off"
              /\ th_text' = [th_text EXCEPT ![t] = <<>>]
              /\ th_pc' = [th_pc EXCEPT ![t] = "lock"]
              /\ UNCHANGED framebuffer
         ELSE /\ device_power' = "on"
              /\ th_text' = [th_text EXCEPT ![t] = th_new_text[t].val]
              /\ IF th_new_text[t].val # th_text[t] \/ again
                   THEN /\ framebuffer' = th_new_text[t].val
                        /\ th_pc' = [th_pc EXCEPT ![t] = "show_lock"]
                   ELSE /\ th_pc' = [th_pc EXCEPT ![t] = "lock"]
                        /\ UNCHANGED framebuffer
    /\ UNCHANGED <<c0vars, core1_lock, th_new_text, th_is_power_on, device_shown>>

\* _render_text, line 213: with self._core1_lock
ShowLock(t) ==
    /\ th_pc[t] = "show_lock"
    /\ CanAcquire(core1_lock)
    /\ core1_lock' = t
    /\ th_pc' = [th_pc EXCEPT ![t] = "show"]
    /\ UNCHANGED <<c0vars, th_new_text, th_is_power_on, th_text, framebuffer, device_power,
                   device_shown>>

\* _render_text, line 214: self.display.show()
Show(t) ==
    /\ th_pc[t] = "show"
    /\ device_shown' = framebuffer
    /\ th_pc' = [th_pc EXCEPT ![t] = "show_unlock"]
    /\ UNCHANGED <<c0vars, core1_lock, th_new_text, th_is_power_on, th_text, framebuffer,
                   device_power>>

\* _render_text: the end of the with block of line 213
ShowUnlock(t) ==
    /\ th_pc[t] = "show_unlock"
    /\ core1_lock' = "free"
    /\ th_pc' = [th_pc EXCEPT ![t] = "lock"]
    /\ UNCHANGED <<c0vars, th_new_text, th_is_power_on, th_text, framebuffer, device_power,
                   device_shown>>

DNext ==
    \/ \E text \in Texts :
           HandleNewText(text) /\ UNCHANGED <<qvars, bvars, svars, uvars, ovars, gvars, tvars>>
    \/ HandleDeleteText /\ UNCHANGED <<qvars, bvars, svars, uvars, ovars, gvars, tvars>>
    \/ UpdateLock /\ UNCHANGED <<qvars, bvars, svars, uvars, ovars, gvars, tvars>>
    \/ UpdateText /\ UNCHANGED <<qvars, bvars, svars, uvars, ovars, gvars, tvars>>
    \/ UpdatePower /\ UNCHANGED <<qvars, bvars, svars, uvars, ovars, gvars, tvars>>
    \/ UpdateUnlock /\ UNCHANGED <<qvars, bvars, svars, uvars, ovars, gvars, tvars>>
    \/ UpdateStart /\ UNCHANGED <<qvars, bvars, svars, uvars, ovars, gvars, tvars>>
    \/ \E t \in RenderThreads :
           ThreadStart(t) /\ UNCHANGED <<qvars, bvars, svars, uvars, ovars, gvars, tvars>>
    \/ \E t \in RenderThreads :
           ThreadLock(t) /\ UNCHANGED <<qvars, bvars, svars, uvars, ovars, gvars, tvars>>
    \/ \E t \in RenderThreads :
           ThreadReadText(t) /\ UNCHANGED <<qvars, bvars, svars, uvars, ovars, gvars, tvars>>
    \/ \E t \in RenderThreads :
           ThreadReadPower(t) /\ UNCHANGED <<qvars, bvars, svars, uvars, ovars, gvars, tvars>>
    \/ \E t \in RenderThreads :
           ThreadUnlock(t) /\ UNCHANGED <<qvars, bvars, svars, uvars, ovars, gvars, tvars>>
    \/ \E t \in RenderThreads, again \in BOOLEAN :
           ThreadDecide(t, again) /\ UNCHANGED <<qvars, bvars, svars, uvars, ovars, gvars, tvars>>
    \/ \E t \in RenderThreads :
           ShowLock(t) /\ UNCHANGED <<qvars, bvars, svars, uvars, ovars, gvars, tvars>>
    \/ \E t \in RenderThreads :
           Show(t) /\ UNCHANGED <<qvars, bvars, svars, uvars, ovars, gvars, tvars>>
    \/ \E t \in RenderThreads :
           ShowUnlock(t) /\ UNCHANGED <<qvars, bvars, svars, uvars, ovars, gvars, tvars>>

(***************************************************************************)
(* The event queue, StateManager.run and the tasks of main.py              *)
(***************************************************************************)

\* the events _button_task puts (hardware.py lines 77-80)
ButtonEvents == [type : {"BUTTON_PRESSED", "BUTTON_RELEASED"}, value : {"ACCEPT", "REJECT"}]
\* the events handle_post puts (webserver.py lines 52-61); an EMERGENCY event
\* has no value, run reads the default (line 233)
WebEvents ==
    [type : {"PICKUP"}, value : Values] \cup {[type |-> "EMERGENCY", value |-> "UNKNOWN_VALUE"]}
\* events no task of the program puts, which run is written to take all the same
OtherEvents ==
    [type : {"PARKING"}, value : Values]
        \cup {[type |-> "UNKNOWN_TYPE", value |-> "UNKNOWN_VALUE"],
              [type |-> "BUTTON_PRESSED", value |-> "UNKNOWN"]}
AllEvents == ButtonEvents \cup WebEvents \cup OtherEvents

NoRunEvent == [type |-> "", value |-> ""]

\* main, lines 39-41 and 61, before any task has run
TInit ==
    /\ event_queue = <<>>
    /\ run_event = NoRunEvent
    /\ produced = 0
    /\ ready_pc = "start"

\* run, lines 238-248, with the type of a button event not looked at
RunDispatchAnyButton(event_type, event_value) ==
    IF event_type \in {"BUTTON_PRESSED", "BUTTON_RELEASED"}
      THEN IF event_value = "ACCEPT" THEN "accept"
           ELSE IF event_value = "REJECT" THEN "reject" ELSE "none"
    ELSE IF event_type = "PICKUP" THEN "pickup"
    ELSE IF event_type = "PARKING" THEN "parking"
    ELSE IF event_type = "EMERGENCY" THEN "emergency" ELSE "none"
\* run, lines 238-248: the handler an event is given to
RunDispatch(event_type, event_value) ==
    IF event_type = "BUTTON_PRESSED"
      THEN IF event_value = "ACCEPT" THEN "accept"
           ELSE IF event_value = "REJECT" THEN "reject" ELSE "none"
    ELSE IF event_type = "PICKUP" THEN "pickup"
    ELSE IF event_type = "PARKING" THEN "parking"
    ELSE IF event_type = "EMERGENCY" THEN "emergency" ELSE "none"

\* a task puts an event of events on the event queue (AsyncQueue.put, lines
\* 53-58: it waits while the queue is full); at most n events are put
EventPut(n, events) ==
    /\ produced < n
    /\ Len(event_queue) < QueueMaxsize
    /\ \E e \in events : event_queue' = Append(event_queue, e)
    /\ produced' = produced + 1
    /\ UNCHANGED <<run_event, ready_pc>>

\* run, lines 231-248: the loop takes the next event and runs its handler up
\* to the handler's end or its suspension in a queue put
RunTake ==
    /\ sm_todo = <<>>
    /\ event_queue # <<>>
    /\ event_queue' = Tail(event_queue)
    /\ run_event' = Head(event_queue)
    /\ LET e == Head(event_queue)
           h == RunDispatch(e.type, e.value)
       IN  \/ h = "accept" /\ HandleAccept
           \/ h = "reject" /\ HandleReject
           \/ h = "pickup" /\ \E ts \in Timestamps : HandlePickup(e.value, ts)
           \/ h = "parking" /\ \E ts \in Timestamps : HandleParking(e.value, ts)
           \/ h = "emergency" /\ \E ts \in Timestamps : HandleEmergency(ts)
           \/ /\ h = "none"
              /\ osc_out' = <<>>
              /\ UNCHANGED <<messages, display_index, osc_index, active_task_id,
                             messages_dirty, w_pc, timers, file_msgs, sm_todo, display_queue,
                             led_queue, led_alert, arrivals, since_write, write_failed>>
    /\ UNCHANGED <<produced, ready_pc>>

\* the event loop fed with every event run can be given
RNext ==
    \/ EventPut(MaxEvents, AllEvents) /\ UNCHANGED <<qvars, bvars, svars, uvars, ovars, gvars, dvars>>
    \/ RunTake /\ UNCHANGED <<qvars, bvars, uvars, ovars, gvars, dvars>>
    \/ ConsumersRun /\ UNCHANGED <<qvars, bvars, uvars, ovars, gvars, dvars, tvars>>

\* the code points of the pieces the display texts are made of
Chars(piece) ==
    IF piece = "Kind abholen: "
      THEN <<75, 105, 110, 100, 32, 97, 98, 104, 111, 108, 101, 110, 58, 32>>
    ELSE IF piece = "Umparken: " THEN <<85, 109, 112, 97, 114, 107, 101, 110, 58, 32>>
    ELSE IF piece = "Ersthelfer zum Kids Check-In"
      THEN <<69, 114, 115, 116, 104, 101, 108, 102, 101, 114, 32, 122, 117, 109, 32, 75,
             105, 100, 115, 32, 67, 104, 101, 99, 107, 45, 73, 110>>
    ELSE IF piece = "Bereit" THEN <<66, 101, 114, 101, 105, 116>>
    ELSE IF piece = "v" THEN <<118>> ELSE <<>>
\* the string a display command carries: its pieces one after the other
\* (the f-strings of lines 363 and 400)
RECURSIVE FormatText(_)
FormatText(pieces) ==
    IF pieces = <<>> THEN <<>> ELSE Chars(Head(pieces)) \o FormatText(Tail(pieces))
\* the pieces of the text a message is displayed with (lines 363, 382, 400)
MessageText(entry) ==
    IF entry.type = "PICKUP" THEN <<"Kind abholen: ", entry.value>>
    ELSE IF entry.type = "PARKING" THEN <<"Umparken: ", entry.value>>
    ELSE <<"Ersthelfer zum Kids Check-In">>

\* show_ready_message, main.py lines 24-26: NEWTEXT "Bereit" is put
ReadyNewText ==
    /\ ready_pc = "start"
    /\ Len(display_queue) < QueueMaxsize
    /\ display_queue' = Append(display_queue, [type |-> "NEWTEXT", value |-> <<"Bereit">>])
    /\ ready_pc' = "sleep"
    /\ osc_out' = <<>>
    /\ UNCHANGED <<messages, display_index, osc_index, active_task_id, messages_dirty, w_pc,
                   timers, file_msgs, sm_todo, led_queue, led_alert, arrivals, since_write,
                   write_failed, event_queue, run_event, produced>>

\* show_ready_message, main.py lines 27-28: the 3 s are over, DELETETEXT is put
ReadyDeleteText ==
    /\ ready_pc = "sleep"
    /\ Len(display_queue) < QueueMaxsize
    /\ display_queue' = Append(display_queue, [type |-> "DELETETEXT", value |-> <<"">>])
    /\ ready_pc' = "done"
    /\ osc_out' = <<>>
    /\ UNCHANGED <<messages, display_index, osc_index, active_task_id, messages_dirty, w_pc,
                   timers, file_msgs, sm_todo, led_queue, led_alert, arrivals, since_write,
                   write_failed, event_queue, run_event, produced>>

\* DisplayManager.run, lines 221-223: the display task takes the oldest
\* command and gives it to handle_event
DisplayGet ==
    /\ display_queue # <<>>
    /\ display_queue' = Tail(display_queue)
    /\ IF Head(display_queue).type = "NEWTEXT"
         THEN HandleNewText(FormatText(Head(display_queue).value))
         ELSE HandleDeleteText
    /\ osc_out' = <<>>
    /\ UNCHANGED <<messages, display_index, osc_index, active_task_id, messages_dirty, w_pc,
                   timers, file_msgs, sm_todo, led_queue, led_alert, arrivals, since_write,
                   write_failed>>

\* the kind of message that arrives while the display is followed
ReadyKinds == {"PICKUP"}

\* main, lines 52-62: every task has had its first run, in the order of
\* creation, before a request or a button can have put an event: the event
\* loop waits in get while show_ready_message puts its NEWTEXT
FirstRoundOver == ready_pc # "start"

\* the state machine, the ready message of main and the display task up to
\* the start of the render thread (past its first statement the thread only
\* reads the cell)
YNext ==
    \/ ReadyNewText /\ UNCHANGED <<qvars, bvars, uvars, ovars, gvars, dvars>>
    \/ ReadyDeleteText /\ UNCHANGED <<qvars, bvars, uvars, ovars, gvars, dvars>>
    \/ FirstRoundOver /\ Arrival(MaxArrivals, ReadyKinds) /\ UNCHANGED <<qvars, bvars, uvars, ovars, gvars, dvars, tvars>>
    \/ FirstRoundOver /\ HandleAccept /\ UNCHANGED <<qvars, bvars, uvars, ovars, gvars, dvars, tvars>>
    \/ FirstRoundOver /\ HandleReject /\ UNCHANGED <<qvars, bvars, uvars, ovars, gvars, dvars, tvars>>
    \/ LedTask /\ UNCHANGED <<qvars, bvars, uvars, ovars, gvars, dvars, tvars>>
    \/ DisplayGet /\ UNCHANGED <<qvars, bvars, uvars, ovars, gvars, tvars>>
    \/ UpdateLock /\ UNCHANGED <<qvars, bvars, svars, uvars, ovars, gvars, tvars>>
    \/ UpdateText /\ UNCHANGED <<qvars, bvars, svars, uvars, ovars, gvars, tvars>>
    \/ UpdatePower /\ UNCHANGED <<qvars, bvars, svars, uvars, ovars, gvars, tvars>>
    \/ UpdateUnlock /\ UNCHANGED <<qvars, bvars, svars, uvars, ovars, gvars, tvars>>
    \/ UpdateStart /\ UNCHANGED <<qvars, bvars, svars, uvars, ovars, gvars, tvars>>
    \/ \E t \in RenderThreads :
           ThreadStart(t) /\ UNCHANGED <<qvars, bvars, svars, uvars, ovars, gvars, tvars>>

\* the queue with maxsize > 0 used for ever: the histories are not kept
QLiveInit == QInit /\ q_arg > 0

QLiveNext ==
    \/ Construct /\ UNCHANGED <<bvars, svars, uvars, ovars, gvars, dvars, tvars>>
    \/ \E p \in Producers : PutCall(p, FALSE) /\ UNCHANGED <<bvars, svars, uvars, ovars, gvars, dvars, tvars>>
    \/ \E p \in Producers : PutResume(p, FALSE) /\ UNCHANGED <<bvars, svars, uvars, ovars, gvars, dvars, tvars>>
    \/ \E c \in Consumers : GetCall(c, FALSE) /\ UNCHANGED <<bvars, svars, uvars, ovars, gvars, dvars, tvars>>
    \/ \E c \in Consumers : GetResume(c, FALSE) /\ UNCHANGED <<bvars, svars, uvars, ovars, gvars, dvars, tvars>>

\* the cooperative scheduler runs every task that an Event.set() made runnable
QFairness ==
    /\ \A p \in Producers : WF_vars(PutResume(p, FALSE) /\ UNCHANGED <<bvars, svars, uvars, ovars, gvars, dvars, tvars>>)
    /\ \A c \in Consumers : WF_vars(GetResume(c, FALSE) /\ UNCHANGED <<bvars, svars, uvars, ovars, gvars, dvars, tvars>>)

Init == QInit /\ BInit /\ SInit /\ UInit /\ OInit /\ GInit /\ DInit /\ TInit
Next == QNext
Spec == Init /\ [][Next]_vars
\* the queue with maxsize > 0 used for ever
FairInit == QLiveInit /\ BInit /\ SInit /\ UInit /\ OInit /\ GInit /\ DInit /\ TInit
FairQueue == FairInit /\ [][QLiveNext]_vars /\ QFairness
\* the queue is not constructed
IdleQueueInit == QInit /\ q_arg = 0 /\ BInit /\ SInit /\ UInit /\ OInit /\ GInit /\ DInit /\ TInit
\* the button bridge alone
SpecBridge == IdleQueueInit /\ [][BNext]_vars
\* the state machine starts with the ledger loaded from messages.txt
LoadedInit == QInit /\ q_arg = 0 /\ BInit /\ SInitLoaded /\ UInit /\ OInit /\ GInit /\ DInit /\ TInit
\* update_state called on ledgers of every content
UpdateInit == QInit /\ q_arg = 0 /\ BInit /\ SInitUpdate /\ UInit /\ OInit /\ GInit /\ DInit /\ TInit
SpecUpdate == UpdateInit /\ [][UNext]_vars
\* the state machine alone, with its writer, timers and queue consumers
SpecState == LoadedInit /\ [][SNext]_vars
\* the ledger with its writer while messages arrive
SpecLedger == IdleQueueInit /\ [][LNext]_vars
\* the scheduler runs every task that is ready: a sleep that has ended (the
\* 45 s of auto_clear, the 500 ms of the writer), a set dirty Event, a queue
\* that holds a command; events arrive or not
SFairness ==
    /\ WF_vars(AutoClear /\ UNCHANGED <<qvars, bvars, uvars, ovars, gvars, dvars, tvars>>)
    /\ WF_vars(WriterWake /\ UNCHANGED <<qvars, bvars, uvars, ovars, gvars, dvars, tvars>>)
    /\ WF_vars(WriterWrite(TRUE) /\ UNCHANGED <<qvars, bvars, uvars, ovars, gvars, dvars, tvars>>)
    /\ WF_vars(ConsumersRun /\ UNCHANGED <<qvars, bvars, uvars, ovars, gvars, dvars, tvars>>)
\* the state machine with every ready task run
FairState == LoadedInit /\ [][SNext]_vars /\ SFairness
\* the kind of message that arrives while the writer is followed
WriterKinds == {"PICKUP"}

\* the state machine with a file system that may fail: arrivals, Accepts,
\* timers, the writer and the queue consumers
WNext ==
    \/ Arrival(MaxArrivals, WriterKinds) /\ UNCHANGED <<qvars, bvars, uvars, ovars, gvars, dvars, tvars>>
    \/ HandleAccept /\ UNCHANGED <<qvars, bvars, uvars, ovars, gvars, dvars, tvars>>
    \/ AutoClear /\ UNCHANGED <<qvars, bvars, uvars, ovars, gvars, dvars, tvars>>
    \/ WriterWake /\ UNCHANGED <<qvars, bvars, uvars, ovars, gvars, dvars, tvars>>
    \/ \E ok \in BOOLEAN :
           WriterWrite(ok) /\ UNCHANGED <<qvars, bvars, uvars, ovars, gvars, dvars, tvars>>
    \/ ConsumersRun /\ UNCHANGED <<qvars, bvars, uvars, ovars, gvars, dvars, tvars>>
\* the scheduler runs the writer when dirty is set and when its sleep has
\* ended, the auto_clear tasks and the queue consumers
WFairness ==
    /\ WF_vars(AutoClear /\ UNCHANGED <<qvars, bvars, uvars, ovars, gvars, dvars, tvars>>)
    /\ WF_vars(WriterWake /\ UNCHANGED <<qvars, bvars, uvars, ovars, gvars, dvars, tvars>>)
    /\ WF_vars(\E ok \in BOOLEAN :
                   WriterWrite(ok) /\ UNCHANGED <<qvars, bvars, uvars, ovars, gvars, dvars, tvars>>)
    /\ WF_vars(ConsumersRun /\ UNCHANGED <<qvars, bvars, uvars, ovars, gvars, dvars, tvars>>)
FairWriter == IdleQueueInit /\ [][WNext]_vars /\ WFairness
\* the arrival handlers of all three kinds
SpecArrival == LoadedInit /\ [][ANext]_vars
\* the OSC encoder functions called with every argument of the model
SpecOsc == IdleQueueInit /\ [][ONext]_vars
\* the logger alone
SpecLog == IdleQueueInit /\ [][GNext]_vars
\* the display task and the render threads
SpecDisplay == IdleQueueInit /\ [][DNext]_vars
\* the event loop of the state machine
SpecRun == LoadedInit /\ [][RNext]_vars
\* the producers of display commands and the display task
SpecReady == IdleQueueInit /\ [][YNext]_vars

\* the events put while the three queues are followed: requests to pick up a
\* child, more of them than a queue holds
TopologyEvents == [type : {"PICKUP"}, value : Values]
\* the tasks around the three queues of main: the producers of events, the
\* event loop, the display task and the LED task
TNext ==
    \/ EventPut(MaxQueued, TopologyEvents) /\ UNCHANGED <<qvars, bvars, svars, uvars, ovars, gvars, dvars>>
    \/ RunTake /\ UNCHANGED <<qvars, bvars, uvars, ovars, gvars, dvars>>
    \/ HandlerResume /\ UNCHANGED <<qvars, bvars, uvars, ovars, gvars, dvars, tvars>>
    \/ DisplayQueueDrain /\ UNCHANGED <<qvars, bvars, uvars, ovars, gvars, dvars, tvars>>
    \/ LedTask /\ UNCHANGED <<qvars, bvars, uvars, ovars, gvars, dvars, tvars>>
\* the scheduler runs every task that is ready: the event loop when the event
\* queue holds an event, a suspended handler when its queue has space, the
\* display task and the LED task when their queue holds a command
TFairness ==
    /\ WF_vars(RunTake /\ UNCHANGED <<qvars, bvars, uvars, ovars, gvars, dvars>>)
    /\ WF_vars(HandlerResume /\ UNCHANGED <<qvars, bvars, uvars, ovars, gvars, dvars, tvars>>)
    /\ WF_vars(DisplayQueueDrain /\ UNCHANGED <<qvars, bvars, uvars, ovars, gvars, dvars, tvars>>)
    /\ WF_vars(LedTask /\ UNCHANGED <<qvars, bvars, uvars, ovars, gvars, dvars, tvars>>)
FairTopology == IdleQueueInit /\ [][TNext]_vars /\ TFairness

(***************************************************************************)
(* Claims about AsyncQueue                                                 *)
(***************************************************************************)

\* C1: for a queue built with capacity C > 0, qsize() is at most C in every
\* reachable state, for any interleaving of puts and gets.
C1_QsizeAtMostCapacity ==
    (q_state = "ok" /\ q_arg > 0) => qsize <= q_arg

\* C1 witness: the queue holds C items and a producer is suspended in put.
C1_Witness ==
    /\ q_state = "ok" /\ q_arg > 0 /\ qsize = q_arg
    /\ \E p \in Producers : pcP[p] = "wait"

\* C2: for capacity C > 0 the items returned by get, followed by the items
\* still queued, are exactly the items appended by put, in the same order
\* (nothing lost, duplicated or reordered).
C2_Fifo ==
    (q_state = "ok" /\ q_arg > 0) => putLog = getLog \o queue

\* C2 witness: several items were returned, one is queued, and a producer
\* had to wait for its turn (the puts did not complete in call order).
C2_Witness ==
    /\ q_state = "ok" /\ q_arg > 0
    /\ Len(getLog) >= 3 /\ queue # <<>>
    /\ \E i \in 1..(Len(putLog) - 1) : putLog[i] > putLog[i + 1]

\* a get removes an item / a put adds one
GetHappens == Len(queue') < Len(queue)
PutHappens == Len(queue') > Len(queue)

\* C3 (as stated): a task suspended in put eventually completes whenever
\* gets keep occurring, and a task suspended in get eventually completes
\* whenever puts keep occurring.
C3_SuspendedCompletes ==
    /\ ([]<><<GetHappens>>_vars) =>
           \A p \in Producers : (pcP[p] = "wait") ~> (pcP[p] = "idle")
    /\ ([]<><<PutHappens>>_vars) =>
           \A c \in Consumers : (pcC[c] = "wait") ~> (pcC[c] = "idle")

\* C3 (amended): no wake-up is lost. A task is suspended in put only while
\* the queue is full and suspended in get only while it is empty; whenever
\* gets (puts) keep occurring every task suspended in put (get) is woken
\* and re-checks its condition. Completion of a particular task is not
\* promised: a competing task may have taken the slot (item) first.
C3_NoLostWakeup ==
    /\ [](\A p \in Producers : pcP[p] = "wait" => PutMustWait)
    /\ [](\A c \in Consumers : pcC[c] = "wait" => queue = <<>>)
    /\ ([]<><<GetHappens>>_vars) =>
           \A p \in Producers : (pcP[p] = "wait") ~> (pcP[p] = "ready")
    /\ ([]<><<PutHappens>>_vars) =>
           \A c \in Consumers : (pcC[c] = "wait") ~> (pcC[c] = "ready")
    /\ \A p \in Producers : (pcP[p] = "ready") ~> (pcP[p] # "ready")
    /\ \A c \in Consumers : (pcC[c] = "ready") ~> (pcC[c] # "ready")

\* C3 witness: one get has woken two producers that were suspended on a
\* full queue; only one of them can take the free slot.
C3_Witness ==
    /\ q_state = "ok" /\ Len(queue) = maxsize - 1
    /\ \E p1, p2 \in Producers : p1 # p2 /\ pcP[p1] = "ready" /\ pcP[p2] = "ready"

\* C4 (as stated): a queue built with capacity 0 is unbounded: put never
\* suspends, full() is never true and no item put is discarded.
C4_ZeroIsUnbounded ==
    (q_state = "ok" /\ q_arg = 0) =>
        /\ \A p \in Producers : pcP[p] = "idle"
        /\ ~full /\ ~fullSeen
        /\ putLog = getLog \o queue

\* C5: constructing with a negative capacity raises and creates nothing of
\* the queue (no storage, no events, no _maxsize).
C5_NegativeRejected ==
    (q_arg < 0 /\ q_state # "new") =>
        /\ q_state = "error"
        /\ q_attrs = {}
        /\ queue = <<>> /\ ~put_event /\ ~get_event

\* C5 witness: the constructor was called with -1 and raised.
C5_Witness == q_arg < 0 /\ q_state = "error"

(***************************************************************************)
(* Claims about the button bridge                                          *)
(***************************************************************************)

\* the events published for interrupt id
IsPublished(id) == \E k \in 1..Len(published) : published[k].id = id
\* pin, tick timestamp and true time of the interrupt read by the k-th mailbox read
ProcPin(k) == irqLog[procLog[k].id].pin
ProcTs(k) == irqLog[procLog[k].id].ts
ProcAt(k) == irqLog[procLog[k].id].at

\* the timestamp of the last accepted edge of pin among the first n mailbox reads, or -1
LastAcceptedTs(pin, n) ==
    LET S == {k \in 1..n : ProcPin(k) = pin /\ procLog[k].acc}
    IN  IF S = {} THEN -1 ELSE ProcTs(CHOOSE k \in S : \A j \in S : j <= k)

\* C6: of two raw edges on the same pin D ms apart, each read by its own
\* poll, at most one is published when D < 200 and both are published when
\* D > 200 (the first one being published). The boundary D = 200, which the
\* strict test of line 66 rejects, is left out of the formula.
C6_DebounceTwoEdges ==
    b_pc # "put" =>
        \A i, j \in 1..Len(procLog) :
            ( /\ i < j
              /\ procLog[i].id # procLog[j].id
              /\ ProcPin(i) = ProcPin(j)
              /\ \A k \in (i + 1)..(j - 1) : ProcPin(k) # ProcPin(i) ) =>
                LET D == ProcAt(j) - ProcAt(i)
                IN  /\ D < DEBOUNCE_MS =>
                          ~(IsPublished(procLog[i].id) /\ IsPublished(procLog[j].id))
                    /\ (D > DEBOUNCE_MS /\ IsPublished(procLog[i].id)) =>
                          IsPublished(procLog[j].id)

\* C7: the debounce window of a pin is measured from the last accepted edge
\* of that pin: last_event_time[pin] is always the timestamp of the last
\* accepted edge of the pin (a rejected edge and an edge of the other pin
\* leave it alone), and an edge is accepted exactly when the pin has no
\* accepted edge yet or its timestamp is more than 200 ms after that one.
C7_WindowFromLastAccepted ==
    /\ \A pin \in Pins : last_event_time[pin] = LastAcceptedTs(pin, Len(procLog))
    /\ \A k \in 1..Len(procLog) :
           procLog[k].acc <=>
               \/ LastAcceptedTs(ProcPin(k), k - 1) = -1
               \/ ProcTs(k) - LastAcceptedTs(ProcPin(k), k - 1) > DEBOUNCE_MS

\* C7 witness: an edge was rejected by debounce and the window of its pin
\* still starts at the earlier, accepted edge.
C7_Witness ==
    \E i, k \in 1..Len(procLog) :
        /\ i < k /\ procLog[i].acc /\ ~procLog[k].acc
        /\ procLog[i].id # procLog[k].id
        /\ ProcPin(i) = ProcPin(k)
        /\ last_event_time[ProcPin(k)] = ProcTs(i)
        /\ ProcTs(k) # ProcTs(i)

\* C8: the mailbox is a single latest-wins slot: it always holds the most
\* recent interrupt, so a poll reads exactly that one; an interrupt that was
\* overwritten unread is never published; no interrupt is published twice
\* and a poll publishes at most one event.
C8_MailboxLatestWins ==
    /\ irqLog # <<>> => latest_event.id = Len(irqLog)
    /\ \A k \in 1..Len(published) : published[k].id \notin overwritten
    /\ \A k1, k2 \in 1..Len(published) :
           k1 # k2 => published[k1].id # published[k2].id
    /\ Len(published) <= Len(procLog)

\* C8 witness: two interrupts came between two polls; the first was
\* overwritten unread and the poll published the second.
C8_Witness ==
    /\ 1 \in overwritten
    /\ IsPublished(2)
    /\ Len(procLog) = 1

(***************************************************************************)
(* Claims about the message ledger                                         *)
(***************************************************************************)

\* the ids of the messages of a ledger, in ledger order
Ids(msgs) == [k \in 1..Len(msgs) |-> msgs[k].id]

\* C9 as stated: whenever no handler is in the middle of its run, the ledger
\* holds at most 5 messages.
C9_LedgerAtMostFive ==
    sm_todo = <<>> => Len(messages) <= max_messages

\* C9 amended: the cap is enforced by the debounced write and not by the
\* handlers: the ledger holds at most 5 messages when the write has run and
\* no message arrived since, it exceeds 5 by at most the number of messages
\* inserted since the last write, and the file never holds more than 5.
C9_LedgerCappedByWrite ==
    /\ since_write = 0 => Len(messages) <= max_messages
    /\ Len(messages) <= max_messages + since_write
    /\ Len(file_msgs) <= max_messages

\* C9 witness: more than 5 messages arrived, the write has cut the ledger to
\* 5 and the file holds the same 5.
C9_Witness ==
    /\ arrivals > max_messages
    /\ since_write = 0
    /\ Len(messages) = max_messages
    /\ JsonLoads(file_msgs) = messages

\* C10: once 6 or more messages have been inserted and the debounced write
\* has run after the last of them, the ledger has length 5 and holds exactly
\* the 5 most recently arrived messages in arrival order.
C10_FiveMostRecent ==
    (arrivals >= max_messages + 1 /\ since_write = 0) =>
        /\ Len(messages) = max_messages
        /\ Ids(messages) = [k \in 1..max_messages |-> arrivals - max_messages + k]

\* C10 witness: 6 messages of both kinds were inserted before the write ran;
\* the ledger now holds the messages 2 to 6.
C10_Witness ==
    /\ arrivals = max_messages + 1
    /\ since_write = 0
    /\ w_pc = "wait"
    /\ Ids(messages) = <<2, 3, 4, 5, 6>>
    /\ \E j, k \in 1..Len(messages) : messages[j].type # messages[k].type

(***************************************************************************)
(* Claims about the cursors and the message states                         *)
(***************************************************************************)

\* a step of _write_messages_to_file
WriteStep == w_pc = "sleep" /\ w_pc' = "wait"
\* a step of a Pickup, Emergency or Parking handler
ArrivalStep == arrivals' = arrivals + 1
\* a cursor moved down by k, floored at -1; -1 stays -1
ShiftedDown(c, k) == IF c = -1 THEN -1 ELSE Max(-1, c - k)
\* a cursor is -1 or an index into the ledger
CursorOk(c) == c = -1 \/ (0 <= c /\ c <= Len(messages) - 1)

\* C11: a write that evicts k entries moves both cursors down by exactly k,
\* floored at -1 (k = 0: it leaves them alone), and an append, which evicts
\* nothing, does not move the remote cursor.
C11_CursorsShiftByEviction ==
    [][ /\ WriteStep =>
              /\ display_index' = ShiftedDown(display_index, RemovedCount(messages))
              /\ osc_index' = ShiftedDown(osc_index, RemovedCount(messages))
        /\ ArrivalStep => osc_index' = osc_index ]_vars

\* C12: in every reachable state each cursor is -1 or an index into the
\* ledger.
C12_CursorsValid == CursorOk(display_index) /\ CursorOk(osc_index)

\* C13: whenever the remote cursor is not -1 it is the index of the message
\* accepted by the most recent Accept (the one whose auto_clear task is the
\* newest one sleeping).
C13_RemoteCursorOnAccepted ==
    osc_index # -1 =>
        /\ timers # <<>>
        /\ CursorOk(osc_index)
        /\ messages[osc_index + 1].id = timers[Len(timers)].msg

\* the state changes a message may make
AllowedChanges ==
    {<<"wait", "accepted">>, <<"wait", "rejected">>, <<"accepted", "show">>}

\* C14: in every step, a message that changes state goes Wait -> Accepted,
\* Wait -> Rejected or Accepted -> Show; so Rejected is final and Wait never
\* turns into Show.
C14_StateChangesAllowed ==
    [][ \A j \in 1..Len(messages), k \in 1..Len(messages') :
            (messages[j].id = messages'[k].id /\ messages[j].state # messages'[k].state)
                => <<messages[j].state, messages'[k].state>> \in AllowedChanges ]_vars

\* the three packets of an Accept for the message entry, in their order
IsAcceptPackets(out, entry) ==
    /\ Len(out) = 3
    /\ out[1].path = "lines" /\ out[1].text = entry.type /\ out[1].arg = entry.value
    /\ out[2].path = "opacity" /\ out[2].arg = "1.0"
    /\ out[3].path = "connect" /\ out[3].arg = "1"

\* the three clear packets of a Reject, in their order
IsClearPackets(out) ==
    /\ Len(out) = 3
    /\ out[1].path = "lines" /\ out[1].arg = ""
    /\ out[2].path = "opacity" /\ out[2].arg = "0.0"
    /\ out[3].path = "connect" /\ out[3].arg = "0"

\* the two packets of an auto-clear, in their order
IsAutoClearPackets(out) ==
    /\ Len(out) = 2
    /\ out[1].path = "opacity" /\ out[1].arg = "0.0"
    /\ out[2].path = "connect" /\ out[2].arg = "0"

\* C15: an Accept handled with the display cursor at d (not -1) and the
\* remote cursor -1 ends with message d accepted, the remote cursor d, the
\* display cursor -1, exactly the packets text, opacity 1.0, connect 1 sent
\* in this order, DELETETEXT put on the display queue and OFF on the LED
\* queue.
C15_AcceptFromDisplay ==
    [][ (HandleAccept /\ display_index # -1 /\ osc_index = -1) =>
            /\ messages'[display_index + 1].state = "accepted"
            /\ osc_index' = display_index
            /\ display_index' = -1
            /\ IsAcceptPackets(osc_out', messages[display_index + 1])
            /\ display_queue' = Append(display_queue, [type |-> "DELETETEXT", value |-> <<"">>])
            /\ led_queue' = Append(led_queue, [state |-> "OFF"]) ]_vars

\* C15 witness: the first Accept of the run has just been handled, for an
\* Emergency message: the three packets are out, the message is accepted,
\* the remote cursor is on it and the display cursor is -1.
C15_Witness ==
    /\ active_task_id = 1
    /\ display_index = -1
    /\ CursorOk(osc_index) /\ osc_index # -1
    /\ messages[osc_index + 1].state = "accepted"
    /\ messages[osc_index + 1].type = "EMERGENCY"
    /\ IsAcceptPackets(osc_out, messages[osc_index + 1])
    /\ display_queue # <<>> /\ display_queue[Len(display_queue)].type = "DELETETEXT"
    /\ led_queue # <<>> /\ led_queue[Len(led_queue)].state = "OFF"

\* C16: a Reject handled with the display cursor -1 and the remote cursor at
\* a message r of the ledger sends the clear packets (empty text, opacity
\* 0.0, connect 0), sets message r to show and leaves both cursors, the
\* generation counter, every other message, the timers and the display and
\* LED queues unchanged.
C16_RejectRemoteOnly ==
    [][ (HandleReject /\ display_index = -1 /\ ValidIndex(messages, osc_index)) =>
            /\ IsClearPackets(osc_out')
            /\ Len(messages') = Len(messages)
            /\ \A k \in 1..Len(messages) :
                   messages'[k] = IF k = osc_index + 1
                                    THEN [messages[k] EXCEPT !.state = "show"]
                                    ELSE messages[k]
            /\ UNCHANGED <<display_index, osc_index, active_task_id, timers, display_queue,
                           led_queue>> ]_vars

\* C16 witness: the clear packets are out, the display cursor is -1 and the
\* remote cursor is on the most recently accepted message, whose auto_clear
\* task still sleeps and which is now in state show.
C16_Witness ==
    /\ IsClearPackets(osc_out)
    /\ display_index = -1
    /\ osc_index # -1 /\ CursorOk(osc_index)
    /\ timers # <<>>
    /\ messages[osc_index + 1].id = timers[Len(timers)].msg
    /\ messages[osc_index + 1].state = "show"

\* a step in which the oldest sleeping auto_clear task wakes up
AutoClearStep == timers # <<>> /\ timers' = Tail(timers)

\* C17: an auto_clear task that wakes up after a newer Accept sends no
\* packet and changes no state; the auto_clear task of a second or later
\* Accept that is still the newest one sends opacity-off and connect-off,
\* sets the remote cursor to -1 and leaves the message its Accept accepted
\* in state show.
C17_GenerationVersioning ==
    [][ AutoClearStep =>
            IF Head(timers).task_id # active_task_id
              THEN /\ osc_out' = <<>>
                   /\ UNCHANGED <<messages, display_index, osc_index, active_task_id>>
              ELSE Head(timers).task_id > 1 =>
                       /\ IsAutoClearPackets(osc_out')
                       /\ osc_index' = -1
                       /\ \E k \in 1..Len(messages') :
                              /\ messages'[k].id = Head(timers).msg
                              /\ messages'[k].state = "show" ]_vars

\* C18 as stated: every Accept the state machine handles increments the
\* generation counter by exactly one.
C18_EveryAcceptIncrements ==
    [][ HandleAccept => active_task_id' = active_task_id + 1 ]_vars

\* C18 amended: the generation counter never decreases and is never reset;
\* an Accept handled while the display cursor is not -1 increments it by
\* exactly one; an Accept handled while the display cursor is -1 and every
\* other event or timer leaves it unchanged.
C18_GenerationCounter ==
    [][ /\ active_task_id' \in {active_task_id, active_task_id + 1}
        /\ (HandleAccept /\ display_index # -1) => active_task_id' = active_task_id + 1
        /\ active_task_id' # active_task_id =>
               (HandleAccept /\ display_index # -1) ]_vars

\* C18 witness: two Accepts were handled with the display cursor set (the
\* counter is 2, both auto_clear tasks still sleep) and the second message
\* is accepted.
C18_Witness ==
    /\ active_task_id = 2
    /\ Len(timers) = 2
    /\ timers[1].task_id = 1 /\ timers[2].task_id = 2
    /\ \E k \in 1..Len(messages) :
           messages[k].id = timers[2].msg /\ messages[k].state = "accepted"

\* C19: when the auto_clear task of the newest Accept wakes up, the message
\* it sets to show is the message that Accept accepted: that message is at
\* the index the task holds and is in state show afterwards.
C19_AutoClearOwnMessage ==
    [][ (AutoClearStep /\ Head(timers).task_id = active_task_id) =>
            /\ ValidIndex(messages, Head(timers).index)
            /\ messages[Head(timers).index + 1].id = Head(timers).msg
            /\ messages'[Head(timers).index + 1].state = "show" ]_vars

(***************************************************************************)
(* Claims about update_state                                               *)
(***************************************************************************)

\* C20: update_state(index, new_state) sets the state of message index and
\* the dirty flag when 0 <= index <= len - 1; for every other index it
\* changes no message, leaves the dirty flag alone and raises nothing.
C20_UpdateStateValidates ==
    [][ us_call'.made =>
            LET index == us_call'.index
            IN  IF 0 <= index /\ index <= Len(messages) - 1
                  THEN /\ messages' =
                              [messages EXCEPT ![index + 1].state = us_call'.new_state]
                       /\ messages_dirty'
                       /\ ~us_call'.raised
                  ELSE /\ messages' = messages
                       /\ messages_dirty' = messages_dirty
                       /\ ~us_call'.raised ]_vars

(***************************************************************************)
(* Claims about the debounced write                                        *)
(***************************************************************************)

\* C21: a burst of ledger mutations within 500 ms of the first dirty signal
\* is written by exactly one write: no write of the ledger file happens
\* while every mutation has already been written by the write before it.
C21_BurstOneWrite ==
    [][ WriteStep => since_write > 0 ]_vars

\* the kind, value, state and timestamp of a message
Fields(entry) == <<entry.type, entry.value, entry.state, entry.timestamp>>

\* C22: after the ledger is written, loading messages.txt yields the last
\* min(5, n) entries of the n-entry ledger that was written, in the same
\* order and with the same kind, value, state and timestamp, and the ledger
\* in memory is that list too; the file never holds more than 5 entries.
C22_RoundTrip ==
    [][ /\ Len(file_msgs') <= max_messages
        /\ WriterWrite(TRUE) =>
               LET loaded == JsonLoads(file_msgs')
                   n == Len(messages)
                   kept == IF n <= max_messages THEN n ELSE max_messages
               IN  /\ Len(loaded) = kept
                   /\ \A k \in 1..kept : Fields(loaded[k]) = Fields(messages[n - kept + k])
                   /\ Len(messages') = kept
                   /\ \A k \in 1..kept : Fields(messages'[k]) = Fields(loaded[k]) ]_vars

\* C22 witness: a ledger of more than 5 messages, in three different
\* states, was written; the file holds 5 objects which load as the ledger
\* now in memory.
C22_Witness ==
    /\ arrivals > 0
    /\ since_write = 0
    /\ ~messages_dirty /\ w_pc = "wait"
    /\ Len(file_msgs) = max_messages
    /\ file_msgs = JsonDumps(messages)
    /\ JsonLoads(file_msgs) = messages
    /\ messages[1].id > -4
    /\ Cardinality({messages[k].state : k \in 1..Len(messages)}) >= 3

(***************************************************************************)
(* Claims about the OSC encoder                                            *)
(***************************************************************************)

\* C23: for every string s, _osc_encode_string(s) is the UTF-8 bytes of s
\* followed by between 1 and 4 NUL bytes and its length is the smallest
\* multiple of 4 strictly greater than the number of UTF-8 bytes; 2 bytes
\* encode to 4 and 4 bytes to 8.
C23_StringEncoding ==
    osc_call.fn = "_osc_encode_string" =>
        LET b == Encode(osc_call.address)
            out == osc_call.out
        IN  /\ Len(out) > Len(b)
            /\ SubSeq(out, 1, Len(b)) = b
            /\ \A k \in (Len(b) + 1)..Len(out) : out[k] = 0
            /\ Len(out) - Len(b) \in 1..4
            /\ Len(out) % 4 = 0
            /\ \A m \in (Len(b) + 1)..(Len(out) - 1) : m % 4 # 0
            /\ Len(b) = 2 => Len(out) = 4
            /\ Len(b) = 4 => Len(out) = 8

\* C23 witness: "/a" followed by a-umlaut, 4 bytes of UTF-8, was encoded to
\* 8 bytes, the last 4 of them NUL.
C23_Witness ==
    /\ osc_call.fn = "_osc_encode_string"
    /\ osc_call.address = <<47, 97, 228>>
    /\ osc_call.out = <<47, 97, 195, 164, 0, 0, 0, 0>>

\* the argument types _osc_build_message encodes
Supported == {"int", "float", "str"}

\* C24: _osc_build_message raises for an argument that is not an int, a
\* float or a str; _send_resolume_message called with such a value catches
\* the exception, gives no datagram to sendto and returns normally, so the
\* event loop goes on.
C24_UnsupportedArgument ==
    /\ (osc_call.fn = "_osc_build_message" /\ osc_call.arg.kind \notin Supported) =>
           osc_call.raised /\ osc_call.out = <<>>
    /\ (osc_call.fn = "_send_resolume_message" /\ osc_call.arg.kind \notin Supported) =>
           osc_call.sent = <<>> /\ ~osc_call.raised

\* C24 witness: _send_resolume_message was called for the text path with
\* None: nothing was sent and the call returned.
C24_Witness ==
    /\ osc_call.fn = "_send_resolume_message"
    /\ osc_call.address = PARAM_PATH
    /\ osc_call.arg = NoneArg
    /\ osc_call.sent = <<>>
    /\ ~osc_call.raised

(***************************************************************************)
(* Claims about the logger                                                 *)
(***************************************************************************)

\* a flush of the log buffer
FlushStep == log_flushes' = log_flushes + 1

\* C25: a flush that finds the log file over 20 KB, and whose rename does
\* not fail, renames it exactly once to system.log.old before appending: the
\* backup is then the old log file, whatever backup there was is gone, and
\* the lines of the flush start a new log file; no other step renames or
\* touches the backup, and no file other than system.log and system.log.old
\* ever exists.
C25_LogRotation ==
    [][ /\ DOMAIN fs' \subseteq {LOG_FILE, BACKUP_LOG_FILE}
        /\ ~FlushStep => fs' = fs /\ log_rotations' = log_rotations
        /\ (FlushStep /\ OverLimit(fs) /\ log_last' # "failed") =>
               /\ log_rotations' = log_rotations + 1
               /\ BACKUP_LOG_FILE \in DOMAIN fs'
               /\ fs'[BACKUP_LOG_FILE] = fs[LOG_FILE]
               /\ LOG_FILE \in DOMAIN fs' =>
                      fs'[LOG_FILE] = [size |-> Sum(log_buffer), born |-> log_flushes']
        /\ (FlushStep /\ ~(OverLimit(fs) /\ log_last' # "failed")) =>
               /\ log_rotations' = log_rotations
               /\ BACKUP_LOG_FILE \in DOMAIN fs' <=> BACKUP_LOG_FILE \in DOMAIN fs
               /\ BACKUP_LOG_FILE \in DOMAIN fs =>
                      fs'[BACKUP_LOG_FILE] = fs[BACKUP_LOG_FILE] ]_vars

\* C25 witness: the log was rotated twice; the backup is the log file that
\* the first rotation started, the first backup is gone, and a new log file
\* is being written.
C25_Witness ==
    /\ log_rotations = 2
    /\ DOMAIN fs = {LOG_FILE, BACKUP_LOG_FILE}
    /\ fs[BACKUP_LOG_FILE].born > 1
    /\ fs[BACKUP_LOG_FILE].size > max_log_size
    /\ fs[LOG_FILE].born > fs[BACKUP_LOG_FILE].born

(***************************************************************************)
(* Claims about the display                                                *)
(***************************************************************************)

\* C26: the display task writes the cell {text, power_on} and a render
\* thread reads it and runs show() only while holding the lock, one holder
\* at a time; the text and the power_on a render thread has read come from
\* the same write; while show() runs no cell write is under way.
C26_CellUnderLock ==
    /\ c0_pc \in {"text", "power", "unlock"} => core1_lock = "core0"
    /\ \A t \in RenderThreads :
           /\ th_pc[t] \in {"read_text", "read_power", "unlock", "show", "show_unlock"} =>
                  core1_lock = t
           /\ th_pc[t] \in {"unlock", "decide"} => th_new_text[t].w = th_is_power_on[t].w
           /\ th_pc[t] = "show" => c0_pc \notin {"text", "power"}

\* C26 witness: a render thread runs show() for the text of the second
\* write of the cell while the display task waits for the lock to write the
\* cell a third time.
C26_Witness ==
    \E t \in RenderThreads :
        /\ th_pc[t] = "show"
        /\ core1_lock = t
        /\ th_new_text[t].w = 2 /\ th_is_power_on[t].w = 2
        /\ framebuffer = <<97, 101>>
        /\ c0_pc = "lock"
        /\ d_writes = 2

(***************************************************************************)
(* Claims about the effects of Reject and of an arriving message           *)
(***************************************************************************)

\* C27: every Reject sends the clear packets empty text, opacity 0.0 and
\* connect 0 in this order; handled with the display cursor at d (not -1) it
\* also sets message d to rejected, sets the display cursor to -1, puts
\* DELETETEXT on the display queue and OFF on the LED queue, and leaves the
\* remote cursor and the state of the message at the remote cursor unchanged.
C27_RejectEffects ==
    [][ HandleReject =>
            /\ IsClearPackets(osc_out')
            /\ display_index # -1 =>
                   /\ messages'[display_index + 1].state = "rejected"
                   /\ display_index' = -1
                   /\ display_queue' =
                          Append(display_queue, [type |-> "DELETETEXT", value |-> <<"">>])
                   /\ led_queue' = Append(led_queue, [state |-> "OFF"])
                   /\ osc_index' = osc_index
                   /\ ValidIndex(messages, osc_index) =>
                          messages'[osc_index + 1].state = messages[osc_index + 1].state ]_vars

\* C28: after a Pickup, Emergency or Parking event is handled, a new message
\* in state wait with the kind and the value of the event is the last entry
\* of the ledger, the display cursor is its index, the state of every earlier
\* message is unchanged and NEWTEXT was put on the display queue and then ON
\* on the LED queue.
C28_ArrivalEffects ==
    [][ ArrivalStep =>
            LET new == messages'[Len(messages')]
            IN  /\ Len(messages') = Len(messages) + 1
                /\ new.state = "wait"
                /\ \A v \in Values, ts \in Timestamps :
                       /\ HandlePickup(v, ts) => new.type = "PICKUP" /\ new.value = v
                       /\ HandleParking(v, ts) => new.type = "PARKING" /\ new.value = v
                       /\ HandleEmergency(ts) =>
                              new.type = "EMERGENCY" /\ new.value = EmergencyValue
                /\ new.type \in Kinds
                /\ display_index' = Len(messages') - 1
                /\ \A k \in 1..Len(messages) : messages'[k].state = messages[k].state
                /\ Len(display_queue') = Len(display_queue) + 1
                /\ SubSeq(display_queue', 1, Len(display_queue)) = display_queue
                /\ display_queue'[Len(display_queue')].type = "NEWTEXT"
                /\ led_queue' = Append(led_queue, [state |-> "ON"]) ]_vars

\* C28 witness: a Parking event was handled while an accepted message is
\* mirrored: the Parking message is the last entry, in state wait, the
\* display cursor is on it, and NEWTEXT with its text and ON are enqueued.
C28_Witness ==
    /\ messages # <<>>
    /\ messages[Len(messages)].type = "PARKING"
    /\ messages[Len(messages)].state = "wait"
    /\ display_index = Len(messages) - 1
    /\ osc_index # -1
    /\ \E k \in 1..Len(messages) : messages[k].state = "accepted" /\ messages[k].id > 0
    /\ display_queue = << [type |-> "NEWTEXT", value |-> <<"Umparken: ", "v">>] >>
    /\ led_queue = << [state |-> "ON"] >>

(***************************************************************************)
(* Claims about progress of the state machine and of the writer            *)
(***************************************************************************)

\* message number m of this run is in the ledger in state st
InState(m, st) ==
    \E k \in 1..Len(messages) : messages[k].id = m /\ messages[k].state = st

\* C29: every message that enters state accepted eventually reaches state
\* show, through its own auto_clear or through the next Accept, for every
\* sequence of arrivals, Accepts and Rejects.
C29_AcceptedReachesShow ==
    \A m \in 1..MaxArrivals : InState(m, "accepted") ~> InState(m, "show")

\* a write of the ledger file that failed
FailedWrite == WriteStep /\ write_failed'

\* C30: the file changes only in a write, which the writer makes after it
\* found dirty set, cleared it and slept 500 ms; after a write, failed or
\* not, the writer waits for dirty again and the write itself does not set
\* it; every mutation (it sets dirty) is followed by the writer waking up and
\* then by a write attempt, which writes the ledger as it then is; and unless
\* a write fails the file eventually equals the ledger for good.
C30_WriterProgress ==
    /\ [][ /\ file_msgs' # file_msgs => WriteStep
           /\ (w_pc # "sleep" /\ w_pc' = "sleep") => (messages_dirty /\ ~messages_dirty')
           /\ WriteStep => (w_pc' = "wait" /\ messages_dirty' = messages_dirty)
           /\ (WriteStep /\ ~FailedWrite) => file_msgs' = JsonDumps(messages')
           /\ (w_pc = "wait" /\ ~messages_dirty) => ~WriteStep ]_vars
    /\ messages_dirty ~> (w_pc = "sleep")
    /\ (w_pc = "sleep") ~> (w_pc = "wait")
    /\ []~write_failed => <>[](file_msgs = JsonDumps(messages))

\* C30 witness: two messages arrived, one was accepted and set back to show
\* by its auto_clear, and the writer has written all of it: it waits for
\* dirty again and the file holds the ledger.
C30_Witness ==
    /\ arrivals = 2
    /\ w_pc = "wait" /\ ~messages_dirty
    /\ timers = <<>> /\ active_task_id > 0
    /\ InState(1, "show") \/ InState(2, "show")
    /\ file_msgs = JsonDumps(messages)
    /\ file_msgs # <<>>

(***************************************************************************)
(* Claims about the event loop and the tasks around it                     *)
(***************************************************************************)

\* the event loop takes an event from the event queue
TakeStep == Len(event_queue') = Len(event_queue) - 1
\* an event no branch of the event loop is written for
Unhandled(e) ==
    /\ e.type \notin {"PICKUP", "PARKING", "EMERGENCY"}
    /\ ~(e.type = "BUTTON_PRESSED" /\ e.value \in {"ACCEPT", "REJECT"})

\* C31: an event whose type is not handled (BUTTON_RELEASED, an unknown type)
\* or a BUTTON_PRESSED whose value is neither Accept nor Reject leaves the
\* ledger, both cursors and the generation counter unchanged, sends no remote
\* packet, enqueues no display or LED command, and the event loop is ready
\* for the next event.
C31_UnhandledNoEffect ==
    [][(TakeStep /\ Unhandled(Head(event_queue)))
         => /\ UNCHANGED <<messages, display_index, osc_index, active_task_id>>
            /\ UNCHANGED <<display_queue, led_queue, timers>>
            /\ osc_out' = <<>>
            /\ sm_todo' = <<>>]_vars

\* an unhandled event was taken while a message waits for its button, and
\* the loop has the next event to take
C31_Witness ==
    /\ run_event = [type |-> "BUTTON_PRESSED", value |-> "UNKNOWN"]
    /\ display_index # -1
    /\ sm_todo = <<>>
    /\ event_queue # <<>>

\* C32: the render thread is started exactly once, on the first display
\* command that updates the cell: whatever the interleaving of the display
\* commands with the start-up of the render thread, _thread.start_new_thread
\* is never called a second time (a second call gives a second render thread
\* or, where the second core is taken, raises in the display task).
C32_RenderThreadStartedOnce ==
    /\ Cardinality({t \in RenderThreads : th_pc[t] # "off"}) <= 1
    /\ c0_pc # "dead"

\* the length of an OSC string of n bytes: the bytes, a NUL, padded to 4
PaddedLen(n) == ((n + 4) \div 4) * 4
\* the 32-bit integer four bytes spell, highest byte first, two's complement
BigEndianInt(b) ==
    LET low == ((IF b[1] >= 128 THEN b[1] - 128 ELSE b[1]) * 16777216)
                   + (b[2] * 65536) + (b[3] * 256) + b[4]
    IN  IF b[1] >= 128 THEN (low - 2147483647) - 1 ELSE low
\* the number of halves of the IEEE 754 single four bytes spell, highest byte
\* first, for +0.0 and plus or minus 0.5 and 1.0 (9 for any other value)
BigEndianHalves(b) ==
    LET negative == b[1] >= 128
        bits == ((IF negative THEN b[1] - 128 ELSE b[1]) * 16777216)
                    + (b[2] * 65536) + (b[3] * 256) + b[4]
        exponent == bits \div 8388608
        fraction == bits % 8388608
        halves == IF fraction = 0 /\ exponent = 126 THEN 1
                  ELSE IF fraction = 0 /\ exponent = 127 THEN 2 ELSE 9
    IN  IF bits = 0 THEN (IF negative THEN 9 ELSE 0)
        ELSE IF halves = 9 THEN 9
        ELSE IF negative THEN -halves ELSE halves
\* the packet p is encoded(address), the tag and the argument arg
PacketLayout(p, address, arg) ==
    LET a == Encode(address)
        off == PaddedLen(Len(a))
        tag == SubSeq(p, off + 1, off + 4)
        body == SubSeq(p, off + 5, Len(p))
    IN  /\ Len(p) % 4 = 0
        /\ Len(p) >= off + 8
        /\ SubSeq(p, 1, Len(a)) = a
        /\ \A j \in (Len(a) + 1)..off : p[j] = 0
        /\ arg.kind = "int" =>
               tag = <<44, 105, 0, 0>> /\ Len(body) = 4 /\ BigEndianInt(body) = arg.val[1]
        /\ arg.kind = "float" =>
               tag = <<44, 102, 0, 0>> /\ Len(body) = 4 /\ BigEndianHalves(body) = arg.val[1]
        /\ arg.kind = "str" =>
               tag = <<44, 115, 0, 0>> /\ body = OscEncodeString(arg.val)

\* C33: the packet built for (address, value) is encoded(address), then the
\* type tag and the argument: ',i' and a 4-byte big-endian integer, ',f' and
\* a 4-byte big-endian float, or ',s' and a padded string. A value sent to
\* the opacity path is encoded as float, a value sent to the connect path as
\* integer, and the length of every packet is a multiple of 4.
C33_PacketLayout ==
    /\ (osc_call.fn = "_osc_build_message" /\ ~osc_call.raised)
           => PacketLayout(osc_call.out, osc_call.address, osc_call.arg)
    /\ osc_call.fn = "_send_resolume_message" =>
           \A k \in 1..Len(osc_call.sent) :
               LET p == osc_call.sent[k]
                   v == osc_call.arg
               IN  /\ Len(p) % 4 = 0
                   /\ osc_call.address = PARAM_PATH_OPACITY =>
                          /\ v.kind \in {"int", "float"}
                          /\ PacketLayout(p, osc_call.address,
                                 FloatArg(IF v.kind = "int" THEN 2 * v.val[1] ELSE v.val[1]))
                   /\ osc_call.address = PARAM_PATH_CONNECT =>
                          /\ v.kind \in {"int", "float"}
                          /\ PacketLayout(p, osc_call.address,
                                 IntArg(IF v.kind = "float" THEN v.val[1] \div 2
                                        ELSE v.val[1]))
                   /\ osc_call.address \notin {PARAM_PATH_OPACITY, PARAM_PATH_CONNECT} =>
                          PacketLayout(p, osc_call.address, v)

\* the integer 1 was sent to the opacity path, and went out as a float
C33_Witness ==
    /\ osc_call.fn = "_send_resolume_message"
    /\ osc_call.address = PARAM_PATH_OPACITY
    /\ osc_call.arg = IntArg(1)
    /\ Len(osc_call.sent) = 1
    /\ SubSeq(osc_call.sent[1], Len(osc_call.sent[1]) - 7, Len(osc_call.sent[1]))
           = <<44, 102, 0, 0, 63, 128, 0, 0>>

\* C34: the ledger, both cursors and the generation counter are changed by
\* the event loop of the state machine only: a step of the file writer task
\* or of an auto_clear task leaves all four unchanged.
C34_SingleWriter ==
    [][(WriteStep \/ AutoClearStep)
         => UNCHANGED <<messages, display_index, osc_index, active_task_id>>]_vars

\* C35: at most one of the messages that arrived in this run is in state
\* accepted at any time, whatever the sequence of arrivals, Accepts, Rejects
\* and timer firings: an Accept that mirrors a new message first moves the
\* message mirrored before to state show.
C35_AtMostOneAccepted ==
    Cardinality({k \in 1..Len(messages) :
                     messages[k].id > 0 /\ messages[k].state = "accepted"}) <= 1

\* C36: whenever the state machine is idle and the LED queue is drained, the
\* alert LED is on if and only if the display cursor is not -1.
C36_LedFollowsDisplayCursor ==
    (sm_todo = <<>> /\ led_queue = <<>>) => (led_alert = 1 <=> display_index # -1)

\* the LED went on for a first message, off with its Accept and is on again
\* for a second message after the writer evicted
C36_Witness ==
    /\ sm_todo = <<>>
    /\ led_queue = <<>>
    /\ led_alert = 1
    /\ display_index # -1
    /\ active_task_id = 1
    /\ arrivals = 2
    /\ Len(file_msgs) = max_messages
    /\ file_msgs # JsonDumps(LoadedLedger)

\* C37: whenever the display cursor is not -1, the display queue is drained
\* and the display task has handled its last command, the display cell has
\* power_on true and holds the (sanitized) text of the message at the
\* display cursor: no other producer of display commands switches the
\* display off while a message waits.
C37_CellShowsWaitingMessage ==
    (display_index # -1 /\ sm_todo = <<>> /\ display_queue = <<>> /\ c0_pc = "idle")
        => /\ core1_power_on.val
           /\ core1_text.val = Sanitize(FormatText(MessageText(messages[display_index + 1])))

\* the number of events whose handler has run to its end
Handled == arrivals - (IF sm_todo # <<>> THEN 1 ELSE 0)

C39_ActuationPublishesPressed ==
    b_pc # "put" =>
        \A i, j \in 1..Len(procLog) :
            LET a == procLog[i].id
                b == procLog[j].id
            IN  ( /\ i < j
                  /\ a < b
                  /\ ProcPin(i) = ProcPin(j)
                  /\ irqLog[a].val # irqLog[b].val
                  /\ \A m \in 1..(b - 1) : m # a => irqLog[m].pin # ProcPin(i)
                  /\ ProcAt(j) - ProcAt(i) < TicksPeriod - ProcTs(i) )
                    => \E e \in {a, b} : irqLog[e].val = 0 /\ IsPublished(e)

====
